---- MODULE Spec2Model ----
(***************************************************************************)
(* Pose: the real-time pose-estimation frame pipeline.                     *)
(*                                                                         *)
(* Numbers.  JavaScript numbers that carry fractions are modelled exactly  *)
(* where the code's arithmetic stays exact on the modelled inputs:         *)
(*   - keypoint coordinates and confidences are integers in thousandths    *)
(*     (0.15 is 150); a mean is a rational [num, den];                     *)
(*   - the two exponential moving averages are fixed-point (microseconds,  *)
(*     KB) and truncate, which is stated where they are defined.           *)
(* Time (Date.now()) is an input of every handler.                         *)
(***************************************************************************)
EXTENDS Integers, Sequences, FiniteSets, TLC

VARIABLES
    pipe,   \* the last call of a pipeline function: its inputs and its result
    pose,   \* shared values of usePoseDetectionFrameProcessor (inference hook)
    prep,   \* shared values of usePoseDetectionFrameProcessor (preparation hook)
    gov     \* shared values of useAdvancedFrameProcessor (throughput governor)

vars == <<pipe, pose, prep, gov>>

----------------------------------------------------------------------------
(* Fixed-point scale of coordinates and confidences: thousandths.          *)
Scale == 10 * 10 * 10

(* Float32Array elements that are not finite numbers.                      *)
NaN == 0 - (Scale * Scale)
PosInf == Scale * Scale
NegInf == 0 - (Scale * Scale) + 1

Min(a, b) == IF a < b THEN a ELSE b
Max(a, b) == IF a > b THEN a ELSE b

RECURSIVE SumSeq(_)
SumSeq(s) == IF s = <<>> THEN 0 ELSE Head(s) + SumSeq(Tail(s))

(* A rational num/den, den > 0.                                            *)
Rat(n, d) == [num |-> n, den |-> d]
RatGE(r, v) == r.num >= v * r.den
RatGT(r, v) == r.num > v * r.den
RatEq(r, v) == r.num = v * r.den

----------------------------------------------------------------------------
(* KeypointExtractor                                                       *)

KeypointNames ==
    << "nose", "leftEye", "rightEye", "leftEar", "rightEar",
       "leftShoulder", "rightShoulder", "leftElbow", "rightElbow",
       "leftWrist", "rightWrist", "leftHip", "rightHip",
       "leftKnee", "rightKnee", "leftAnkle", "rightAnkle" >>

KeypointNameSet == { KeypointNames[i] : i \in DOMAIN KeypointNames }

(* KEYPOINT_INDICES: name -> tensor index (0-based).                       *)
KEYPOINT_INDICES ==
    [ n \in KeypointNameSet |->
        (CHOOSE i \in DOMAIN KeypointNames : KeypointNames[i] = n) - 1 ]

(* outputTensor[i] of a Float32Array held as a sequence (0-based index).   *)
At(tensor, i) == tensor[i + 1]

(* Math.min and Math.max: NaN if an argument is NaN.                       *)
MathMin(a, b) == IF a = NaN \/ b = NaN THEN NaN ELSE Min(a, b)
MathMax(a, b) == IF a = NaN \/ b = NaN THEN NaN ELSE Max(a, b)

(* A keypoint without `|| 0`: NaN passes through.                          *)
OrZeroOmitted(v) == v

(* `v || 0`: NaN and 0 are falsy.                                          *)
OrZero(v) == IF v = NaN THEN 0 ELSE v

Clamp01(v) == MathMax(0, MathMin(Scale, OrZero(v)))

(* A tensor element d stands for the float32 nearest to d/1000, while a    *)
(* threshold t of the code is the double nearest to t/1000.  They differ   *)
(* when d/1000 is no float32: Float32Direction(d) is 1 if the float32 lies *)
(* above d/1000, -1 if below, 0 if it is exact.  It is read off the binary *)
(* expansion of d/1000: r/1000 is what remains after `sig` significant     *)
(* bits, of which the last was `odd`; a float32 keeps 24 of them and       *)
(* rounds to nearest, ties to even.                                        *)
RECURSIVE Float32Rounding(_, _, _)
Float32Rounding(r, sig, odd) ==
    IF r = 0 THEN 0
    ELSE IF sig = 24
    THEN IF 2 * r > Scale THEN 1
         ELSE IF 2 * r < Scale THEN 0 - 1
         ELSE IF odd THEN 1 ELSE 0 - 1
    ELSE LET bit == 2 * r >= Scale
         IN  Float32Rounding(IF bit THEN 2 * r - Scale ELSE 2 * r,
                             IF sig > 0 \/ bit THEN sig + 1 ELSE 0,
                             bit)

Float32Direction(d) ==
    IF d <= 0 \/ d >= Scale THEN 0 ELSE Float32Rounding(d, 0, FALSE)

(* value > literal and value >= literal, for a float32 value (or the exact *)
(* 0 and 1 of the clamp) and a double literal.                             *)
GreaterThanLiteral(d, t) == d > t \/ (d = t /\ Float32Direction(d) > 0)
AtLeastLiteral(d, t) == d > t \/ (d = t /\ Float32Direction(d) >= 0)

extractKeypoint(outputTensor, keypointIndex) ==
    LET baseIndex == keypointIndex * 3 IN
    IF baseIndex + 2 >= Len(outputTensor)
    THEN [x |-> 0, y |-> 0, confidence |-> 0]
    ELSE [x |-> Clamp01(At(outputTensor, baseIndex + 1)),
          y |-> Clamp01(At(outputTensor, baseIndex)),
          confidence |-> Clamp01(At(outputTensor, baseIndex + 2))]

(* A conversion that leaves the normalized coordinates as they are.        *)
keypointToScreenUnscaled(keypoint, screenWidth, screenHeight) == keypoint

(* Screen coordinates, in thousandths of a pixel.                          *)
keypointToScreen(keypoint, screenWidth, screenHeight) ==
    [x |-> keypoint.x * screenWidth,
     y |-> keypoint.y * screenHeight,
     confidence |-> keypoint.confidence]

keyKeypointNames ==
    << "nose", "leftShoulder", "rightShoulder",
       "leftHip", "rightHip", "leftKnee", "rightKnee" >>

(* 0.1, the inclusion floor of calculateOverallConfidence, in thousandths. *)
InclusionFloor == Scale \div 10

(* The mean over all 17 keypoints above the floor.                         *)
calculateOverallConfidenceOfAll(keypoints) ==
    LET counted == SelectSeq(KeypointNames,
                       LAMBDA n : GreaterThanLiteral(keypoints[n].confidence,
                                                     InclusionFloor))
    IN  IF Len(counted) > 0
        THEN Rat(SumSeq([i \in DOMAIN counted |-> keypoints[counted[i]].confidence]),
                 Len(counted))
        ELSE Rat(0, 1)

(* The mean is taken over the decimal values the confidences stand for;    *)
(* the float32 and the double sum differ from it by less than 10^-6.       *)
calculateOverallConfidence(keypoints) ==
    LET counted == SelectSeq(keyKeypointNames,
                       LAMBDA n : GreaterThanLiteral(keypoints[n].confidence,
                                                     InclusionFloor))
        totalConfidence ==
            SumSeq([i \in DOMAIN counted |-> keypoints[counted[i]].confidence])
        validKeypoints == Len(counted)
    IN  IF validKeypoints > 0 THEN Rat(totalConfidence, validKeypoints)
                              ELSE Rat(0, 1)

(* The count with `>` in place of `>=`.                                    *)
countValidKeypointsStrict(keypoints, threshold) ==
    Cardinality({ n \in DOMAIN keypoints :
                    GreaterThanLiteral(keypoints[n].confidence, threshold) })

countValidKeypoints(keypoints, threshold) ==
    Cardinality({ n \in DOMAIN keypoints :
                    AtLeastLiteral(keypoints[n].confidence, threshold) })

(* A thrown Error is a record [threw |-> TRUE, message |-> ...]; a value   *)
(* returned normally is [threw |-> FALSE, value |-> ...].                  *)
Throw(msg) == [threw |-> TRUE, message |-> msg]
Return(v) == [threw |-> FALSE, value |-> v]

(* The body of extractPoseKeypoints after its shape check.                 *)
ExtractAllKeypoints(modelOutput, config, dt) ==
    LET keypoints ==
            [ n \in KeypointNameSet |->
                extractKeypoint(modelOutput, KEYPOINT_INDICES[n]) ]
        screenKeypoints ==
            [ n \in KeypointNameSet |->
                keypointToScreen(keypoints[n], config.screenWidth,
                                 config.screenHeight) ]
    IN  Return([keypoints |-> keypoints,
                screenKeypoints |-> screenKeypoints,
                overallConfidence |-> calculateOverallConfidence(keypoints),
                validKeypoints |->
                    countValidKeypoints(keypoints, config.confidenceThreshold),
                processingTime |-> dt,
                frameWidth |-> config.screenWidth,
                frameHeight |-> config.screenHeight])

(* extractPoseKeypoints without its shape check.                           *)
extractPoseKeypointsUnchecked(modelOutput, config, dt) ==
    ExtractAllKeypoints(modelOutput, config, dt)

extractPoseKeypoints(modelOutput, config, dt) ==
    IF Len(modelOutput) # 51
    THEN Throw("Keypoint extraction error: Invalid MoveNet output shape")
    ELSE ExtractAllKeypoints(modelOutput, config, dt)

----------------------------------------------------------------------------
(* MockMoveNetOutput: a fixture is 17 triples <<y, x, confidence>>.        *)

RECURSIVE Flatten(_)
Flatten(triples) ==
    IF triples = <<>> THEN <<>> ELSE Head(triples) \o Flatten(Tail(triples))

StandingFixture ==
    << <<150, 500, 950>>, <<120, 480, 900>>, <<120, 520, 900>>,
       <<150, 450, 850>>, <<150, 550, 850>>, <<250, 420, 950>>,
       <<250, 580, 950>>, <<350, 380, 900>>, <<350, 620, 900>>,
       <<450, 350, 850>>, <<450, 650, 850>>, <<550, 450, 920>>,
       <<550, 550, 920>>, <<700, 460, 880>>, <<700, 540, 880>>,
       <<850, 470, 850>>, <<850, 530, 850>> >>

LowConfidenceFixture ==
    << <<160, 500, 450>>, <<130, 480, 400>>, <<130, 520, 420>>,
       <<160, 450, 350>>, <<160, 550, 380>>, <<260, 420, 500>>,
       <<260, 580, 480>>, <<360, 380, 350>>, <<360, 620, 320>>,
       <<460, 350, 280>>, <<460, 650, 300>>, <<560, 450, 450>>,
       <<560, 550, 430>>, <<710, 460, 250>>, <<710, 540, 220>>,
       <<860, 470, 180>>, <<860, 530, 200>> >>

SittingFixture ==
    << <<200, 500, 900>>, <<170, 480, 850>>, <<170, 520, 850>>,
       <<200, 450, 800>>, <<200, 550, 800>>, <<300, 420, 900>>,
       <<300, 580, 900>>, <<400, 380, 850>>, <<400, 620, 850>>,
       <<500, 350, 800>>, <<500, 650, 800>>, <<550, 450, 850>>,
       <<550, 550, 850>>, <<650, 400, 700>>, <<650, 600, 700>>,
       <<750, 420, 600>>, <<750, 580, 600>> >>

PartialFixture ==
    << <<180, 500, 880>>, <<150, 480, 850>>, <<150, 520, 850>>,
       <<180, 450, 750>>, <<180, 550, 100>>, <<280, 420, 900>>,
       <<280, 580, 850>>, <<380, 380, 800>>, <<380, 620, 150>>,
       <<480, 350, 700>>, <<480, 650, 50>>, <<580, 450, 800>>,
       <<580, 550, 750>>, <<720, 460, 650>>, <<720, 540, 250>>,
       <<860, 470, 500>>, <<860, 530, 80>> >>

Scenarios == {"standing", "sitting", "partial", "low_confidence"}

generateMockMoveNetOutput(scenario) ==
    CASE scenario = "standing" -> Flatten(StandingFixture)
      [] scenario = "sitting" -> Flatten(SittingFixture)
      [] scenario = "partial" -> Flatten(PartialFixture)
      [] scenario = "low_confidence" -> Flatten(LowConfidenceFixture)
      [] OTHER -> Flatten(StandingFixture)

----------------------------------------------------------------------------
(* ImagePreprocessor, at the level of buffer shapes.                       *)
(* A frame is [width, height, pixelFormat, bytes]: bytes is the length of  *)
(* frame.toArrayBuffer(), or NoBuffer when it returns null.                *)

NoBuffer == 0 - 1

MOVENET_PREPROCESSING_CONFIG ==
    [inputSize |-> 192, maintainAspectRatio |-> TRUE,
     outputFormat |-> "uint8", normalizeValues |-> FALSE]

(* cropConfig is <<>> when undefined and <<crop>> otherwise.               *)
calculateDimensions(frameWidth, frameHeight, config) ==
    LET targetSize == config.inputSize IN
    IF ~config.maintainAspectRatio
    THEN [targetWidth |-> targetSize, targetHeight |-> targetSize,
          cropConfig |-> <<>>]
    ELSE
        LET cropConfig ==
                IF frameWidth > frameHeight
                THEN << [x |-> Max(0, (frameWidth - frameHeight) \div 2),
                         y |-> 0,
                         width |-> frameHeight,
                         height |-> frameHeight] >>
                ELSE IF frameWidth < frameHeight
                THEN << [x |-> 0,
                         y |-> Max(0, (frameHeight - frameWidth) \div 2),
                         width |-> frameWidth,
                         height |-> frameWidth] >>
                ELSE <<>>
        IN  [targetWidth |-> targetSize, targetHeight |-> targetSize,
             cropConfig |-> cropConfig]

(* The 32-bit integer operators of JavaScript on the values the optimised  *)
(* calculator applies them to.  n << 16 keeps the low 16 bits of n as a    *)
(* signed 16-bit number in the upper half of a 32-bit result: its value is *)
(* ToInt16(n) * 65536.  n >> k is the floor of n / 2^k.                    *)
ToInt16(n) ==
    LET low == n % 65536 IN IF low >= 32768 THEN low - 65536 ELSE low

(* calculateDimensionsOptimized.  frameAspect = (frameWidth << 16) /       *)
(* frameHeight is compared with targetAspect = 65536; both sides are       *)
(* divided by 65536 here.  In the second branch the `>> 16` applies to the *)
(* result of Math.floor, so cropHeight is ToInt16(frameWidth) >> 16.       *)
calculateDimensionsOptimized(frameWidth, frameHeight, config) ==
    LET targetSize == config.inputSize IN
    IF ~config.maintainAspectRatio
    THEN [targetWidth |-> targetSize, targetHeight |-> targetSize,
          cropConfig |-> <<>>]
    ELSE
        LET shifted == ToInt16(frameWidth)
            cropConfig ==
                IF shifted > frameHeight
                THEN LET cropWidth == ToInt16(frameHeight)
                         cropX == (frameWidth - cropWidth) \div 2
                     IN  << [x |-> Max(0, cropX),
                             y |-> 0,
                             width |-> cropWidth,
                             height |-> frameHeight] >>
                ELSE IF shifted < frameHeight
                THEN LET cropHeight == shifted \div 65536
                         cropY == (frameHeight - cropHeight) \div 2
                     IN  << [x |-> 0,
                             y |-> Max(0, cropY),
                             width |-> frameWidth,
                             height |-> cropHeight] >>
                ELSE <<>>
        IN  [targetWidth |-> targetSize, targetHeight |-> targetSize,
             cropConfig |-> cropConfig]

(* convertYUVtoRGB: the length of the RGB buffer, or the error thrown.     *)
(* The Y plane is yuvData.subarray(0, ySize); the loop throws at the first *)
(* pixel whose index is outside it.                                        *)
convertYUVtoRGB(bytes, width, height) ==
    IF bytes = 0 THEN Throw("YUV data is empty or null")
    ELSE IF width <= 0 \/ height <= 0 THEN Throw("Invalid dimensions")
    ELSE IF Min(bytes, width * height) < width * height
    THEN Throw("YUV conversion error: Y index out of bounds")
    ELSE Return(width * height * 3)

(* convertYUVtoRGBOptimized skips pixels outside the Y plane.              *)
convertYUVtoRGBOptimized(bytes, width, height) ==
    IF bytes = 0 THEN Throw("YUV data is empty or null")
    ELSE IF width <= 0 \/ height <= 0 THEN Throw("Invalid dimensions")
    ELSE Return(width * height * 3)

(* The two converters, pixel by pixel.  yuvData is a sequence of bytes; a   *)
(* colour component is held in thousandths (1.402 * V is 1402 * V).  The   *)
(* double a component is computed in differs from that decimal by far less *)
(* than a thousandth, which matters only when the decimal ends in .5: the  *)
(* rounding then goes up or down depending on the accumulated error, and   *)
(* `up` says which.                                                        *)
subarray(data, begin, end) ==
    SubSeq(data, Min(begin, Len(data)) + 1, Min(end, Len(data)))

(* plane[index], undefined (here NaN) outside the plane.                   *)
ByteAt(plane, index) ==
    IF index >= 0 /\ index < Len(plane) THEN plane[index + 1] ELSE NaN

(* plane[index] || 128: undefined and the byte 0 are falsy.                *)
ByteOr128(plane, index) ==
    IF ByteAt(plane, index) = NaN \/ ByteAt(plane, index) = 0
    THEN 128 ELSE ByteAt(plane, index)

(* ITU-R BT.601 with the coefficients of the code, in thousandths.         *)
ConversionMatrix(Y, U, V) ==
    [R |-> Scale * Y + 1402 * V,
     G |-> Scale * Y - 344 * U - 714 * V,
     B |-> Scale * Y + 1772 * U]

(* Math.round(t / 1000) and, for t >= 0, (t / 1000 + 0.5) | 0.             *)
RoundHalf(t, up) ==
    IF t % Scale = 500
    THEN (t \div Scale) + (IF up THEN 1 ELSE 0)
    ELSE (t + 500) \div Scale

(* Math.max(0, Math.min(255, Math.round(c)))                               *)
ClampRound(t, up) == Max(0, Min(255, RoundHalf(t, up)))

(* (c < 0) ? 0 : (c > 255) ? 255 : (c + 0.5) | 0                           *)
FastClamp(t, up) ==
    IF t < 0 THEN 0 ELSE IF t > 255 * Scale THEN 255 ELSE RoundHalf(t, up)

Interleave(pixels) ==
    [i \in 1..(3 * Len(pixels)) |-> pixels[((i - 1) \div 3) + 1][((i - 1) % 3) + 1]]

(* convertYUVtoRGB, for even width and height: the bytes of rgbData, or    *)
(* the error thrown by the first pixel whose Y index is out of bounds.     *)
convertYUVtoRGBBytes(yuvData, width, height, up) ==
    IF Len(yuvData) = 0 THEN Throw("YUV data is empty or null")
    ELSE IF width <= 0 \/ height <= 0 THEN Throw("Invalid dimensions")
    ELSE
    LET ySize == width * height
        uvSize == ySize \div 4
        yPlane == subarray(yuvData, 0, ySize)
        uPlane == subarray(yuvData, ySize, ySize + uvSize)
        vPlane == subarray(yuvData, ySize + uvSize,
                           Min(Len(yuvData), ySize + uvSize * 2))
        pixel(yIndex) ==
            LET y == yIndex \div width
                x == yIndex % width
                uvIndex == (y \div 2) * (width \div 2) + (x \div 2)
                outside == uvIndex >= Len(uPlane) \/ uvIndex >= Len(vPlane)
                safeUVIndex ==
                    Min(uvIndex, Min(Len(uPlane) - 1, Len(vPlane) - 1))
                U == IF outside THEN ByteOr128(uPlane, safeUVIndex) - 128
                                ELSE ByteAt(uPlane, uvIndex) - 128
                V == IF outside THEN ByteOr128(vPlane, safeUVIndex) - 128
                                ELSE ByteAt(vPlane, uvIndex) - 128
                c == ConversionMatrix(ByteAt(yPlane, yIndex), U, V)
            IN  << ClampRound(c.R, up), ClampRound(c.G, up),
                   ClampRound(c.B, up) >>
    IN  IF Len(yPlane) < ySize
        THEN Throw("YUV conversion error: Y index out of bounds")
        ELSE Return(Interleave([p \in 1..ySize |-> pixel(p - 1)]))

(* convertYUVtoRGBOptimized, for even width and height: the bytes of       *)
(* rgbData; pixels outside the Y plane stay 0.                             *)
convertYUVtoRGBOptimizedBytes(yuvData, width, height, up) ==
    IF Len(yuvData) = 0 THEN Throw("YUV data is empty or null")
    ELSE IF width <= 0 \/ height <= 0 THEN Throw("Invalid dimensions")
    ELSE
    LET ySize == width * height
        uvSize == ySize \div 4
        yPlane == subarray(yuvData, 0, ySize)
        uPlane == subarray(yuvData, ySize, ySize + uvSize)
        vPlane == subarray(yuvData, ySize + uvSize,
                           Min(Len(yuvData), ySize + uvSize * 2))
        uvWidth == width \div 2
        pixel(yIndex) ==
            LET currentY == yIndex \div width
                currentX == yIndex % width
                uvIndex == (currentY \div 2) * uvWidth + (currentX \div 2)
                safeUVIndex ==
                    Min(uvIndex, Min(Len(uPlane) - 1, Len(vPlane) - 1))
                U == ByteOr128(uPlane, safeUVIndex) - 128
                V == ByteOr128(vPlane, safeUVIndex) - 128
                c == ConversionMatrix(ByteAt(yPlane, yIndex), U, V)
            IN  IF yIndex < Len(yPlane)
                THEN << FastClamp(c.R, up), FastClamp(c.G, up),
                        FastClamp(c.B, up) >>
                ELSE << 0, 0, 0 >>
    IN  Return(Interleave([p \in 1..ySize |-> pixel(p - 1)]))

(* Math.floor(dstX * scale) with scale = srcSize / dstSize, both computed  *)
(* in double precision (53 significant bits, round to nearest, ties to     *)
(* even).  The rounding errors are far smaller than 1/dstSize, so the      *)
(* result differs from the exact floor(dstX * srcSize / dstSize) only      *)
(* where that quotient is an integer k >= 1, the quotient srcSize/dstSize  *)
(* was rounded down, and the product does not round back up to k.          *)
(*                                                                         *)
(* Log2Floor(a, b) is the exponent e with 2^e <= a/b < 2^(e+1).            *)
RECURSIVE Log2Up(_, _, _)
Log2Up(a, b, e) == IF a < 2 * b THEN e ELSE Log2Up(a, 2 * b, e + 1)

RECURSIVE Log2Down(_, _, _)
Log2Down(a, b, e) == IF a >= b THEN e ELSE Log2Down(2 * a, b, e - 1)

Log2Floor(a, b) == IF a >= b THEN Log2Up(a, b, 0) ELSE Log2Down(a, b, 0)

(* Long division: the remainder r (over den) left after `bits` more bits   *)
(* of the quotient, and whether the last bit was 1.                        *)
RECURSIVE MantissaRemainder(_, _, _, _)
MantissaRemainder(r, den, bits, odd) ==
    IF bits = 0 THEN [r |-> r, odd |-> odd]
    ELSE IF 2 * r >= den
    THEN MantissaRemainder(2 * r - den, den, bits - 1, TRUE)
    ELSE MantissaRemainder(2 * r, den, bits - 1, FALSE)

(* TRUE iff Math.floor(dstX * (srcSize / dstSize)) is one less than the    *)
(* exact quotient k = dstX * srcSize / dstSize, an integer >= 1.           *)
ProductFallsShort(dstX, srcSize, dstSize, k) ==
    LET e == Log2Floor(srcSize, dstSize)
        num == srcSize * 2 ^ Max(0, 0 - e)
        den == dstSize * 2 ^ Max(0, e)
        m == MantissaRemainder(num - den, den, 52, TRUE)
        roundedDown == m.r > 0 /\ (2 * m.r < den \/ (2 * m.r = den /\ ~m.odd))
        ek == Log2Floor(k, 1)
        shift == e + 1 + (IF k = 2 ^ ek THEN 1 ELSE 0)
    IN  /\ roundedDown
        /\ dstX * m.r * 2 ^ Max(0, shift) > den * 2 ^ ek * 2 ^ Max(0, 0 - shift)

FloorOfScaled(dstX, srcSize, dstSize) ==
    LET k == (dstX * srcSize) \div dstSize IN
    IF (dstX * srcSize) % dstSize # 0 \/ k = 0 THEN k
    ELSE IF ProductFallsShort(dstX, srcSize, dstSize, k) THEN k - 1 ELSE k

(* resizeRGBData / resizeRGBDataOptimized: the length of the output.       *)
resizeRGBData(srcWidth, srcHeight, dstWidth, dstHeight) ==
    dstWidth * dstHeight * 3

(* resizeRGBData: the source coordinate sampled for a destination          *)
(* coordinate, Math.min(Math.floor(dst * scale), srcSize - 1).             *)
clampedSrc(dst, srcSize, dstSize) ==
    Min(FloorOfScaled(dst, srcSize, dstSize), srcSize - 1)

(* resizeRGBData, byte by byte: element i (1-based) of the result is the   *)
(* 0-based index into rgbData of the byte copied to resizedData[i - 1].    *)
(* Each dstIndex = (dstY * dstWidth + dstX) * 3 is written once.           *)
resizeRGBDataReads(srcWidth, srcHeight, dstWidth, dstHeight) ==
    [i \in 1..(dstWidth * dstHeight * 3) |->
        LET dstY == ((i - 1) \div 3) \div dstWidth
            dstX == ((i - 1) \div 3) % dstWidth
            clampedSrcX == clampedSrc(dstX, srcWidth, dstWidth)
            clampedSrcY == clampedSrc(dstY, srcHeight, dstHeight)
            srcIndex == (clampedSrcY * srcWidth + clampedSrcX) * 3
        IN  srcIndex + ((i - 1) % 3)]

(* resizeRGBDataOptimized: 16-bit fixed-point scale,                       *)
(* Math.min((dst * scale) >> 16, srcSize - 1).                             *)
clampedSrcOptimized(dst, srcSize, dstSize) ==
    LET scale == (srcSize * 65536) \div dstSize
    IN  Min((dst * scale) \div 65536, srcSize - 1)

(* The source pixels <<x, y>> that reach the output of the software        *)
(* preprocessing path: those the resize step samples, or every pixel when  *)
(* the frame already has the target size and is passed on as it is.  The   *)
(* cropConfig of the calculator is not destructured by either path.        *)
SourcePixelsUsed(frameWidth, frameHeight, config, optimized) ==
    LET dims == IF optimized
                THEN calculateDimensionsOptimized(frameWidth, frameHeight, config)
                ELSE calculateDimensions(frameWidth, frameHeight, config)
    IN  IF dims.targetWidth # frameWidth \/ dims.targetHeight # frameHeight
        THEN { << IF optimized
                  THEN clampedSrcOptimized(dstX, frameWidth, dims.targetWidth)
                  ELSE clampedSrc(dstX, frameWidth, dims.targetWidth),
                  IF optimized
                  THEN clampedSrcOptimized(dstY, frameHeight, dims.targetHeight)
                  ELSE clampedSrc(dstY, frameHeight, dims.targetHeight) >> :
                 dstX \in 0..(dims.targetWidth - 1),
                 dstY \in 0..(dims.targetHeight - 1) }
        ELSE (0..(frameWidth - 1)) \X (0..(frameHeight - 1))

(* The element type taken from outputFormat alone.                         *)
OutputTypeOfFormat(config) == config.outputFormat

(* The element type of the final buffer.                                   *)
OutputType(config) ==
    IF config.outputFormat = "uint8" /\ ~config.normalizeValues
    THEN "uint8" ELSE "float32"

PreprocessingResult(type, length, width, height, dt) ==
    [data |-> [type |-> type, length |-> length],
     width |-> width, height |-> height, channels |-> 3,
     processingTime |-> dt]

processWithFallback(frame, config, dt) ==
    IF frame.bytes = NoBuffer THEN Throw("Frame buffer is null or undefined")
    ELSE
    LET dims == calculateDimensions(frame.width, frame.height, config)
        rgb == IF frame.pixelFormat = "yuv"
               THEN convertYUVtoRGB(frame.bytes, frame.width, frame.height)
               ELSE IF frame.pixelFormat = "rgb"
               THEN Return(frame.bytes)
               ELSE Throw("Unsupported pixel format")
    IN  IF rgb.threw THEN rgb
        ELSE IF rgb.value = 0
        THEN Throw("RGB conversion failed - no data produced")
        ELSE
        LET resized ==
                IF dims.targetWidth # frame.width
                   \/ dims.targetHeight # frame.height
                THEN resizeRGBData(frame.width, frame.height,
                                   dims.targetWidth, dims.targetHeight)
                ELSE rgb.value
        IN  IF resized = 0 THEN Throw("Resize failed - no data produced")
            ELSE Return(PreprocessingResult(OutputType(config), resized,
                            dims.targetWidth, dims.targetHeight, dt))

preprocessFrame(frame, config, dt) == processWithFallback(frame, config, dt)

(* resizeFunc(frame, options) of vision-camera-resize-plugin, an input of  *)
(* processWithResizePlugin: it returns nothing, or scale.width x           *)
(* scale.height RGB pixels of options.dataType, as a typed array or as the *)
(* ArrayBuffer behind one.                                                 *)
BytesPerElement(type) == IF type = "float32" THEN 4 ELSE 1

resizeFunc(plugin, frame, options) ==
    LET elements == options.scale.width * options.scale.height * 3 IN
    IF plugin = "null" THEN [kind |-> "null"]
    ELSE IF plugin = "typed"
    THEN [kind |-> "typed", type |-> options.dataType, length |-> elements]
    ELSE [kind |-> "buffer",
          byteLength |-> elements * BytesPerElement(options.dataType)]

(* new Uint8Array(source) / new Float32Array(source): a copy of a typed    *)
(* array has its length, a view of an ArrayBuffer has byteLength divided   *)
(* by the element size.                                                    *)
TypedArray(type, source) ==
    [type |-> type,
     length |-> IF source.kind = "typed" THEN source.length
                ELSE source.byteLength \div BytesPerElement(type)]

processWithResizePlugin(frame, plugin, config, dt) ==
    LET dims == calculateDimensions(frame.width, frame.height, config)
        resizedBuffer ==
            resizeFunc(plugin, frame,
                       [scale |-> [width |-> dims.targetWidth,
                                   height |-> dims.targetHeight],
                        pixelFormat |-> "rgb",
                        dataType |-> config.outputFormat,
                        crop |-> dims.cropConfig])
    IN  IF resizedBuffer.kind = "null"
        THEN Throw("Resize function returned null/undefined")
        ELSE
        LET processedData ==
                IF config.outputFormat = "uint8"
                THEN IF config.normalizeValues
                     THEN [type |-> "float32",
                           length |-> TypedArray("uint8", resizedBuffer).length]
                     ELSE TypedArray("uint8", resizedBuffer)
                ELSE TypedArray("float32", resizedBuffer)
        IN  Return([data |-> processedData,
                    width |-> dims.targetWidth, height |-> dims.targetHeight,
                    channels |-> 3, processingTime |-> dt])

preprocessFrameOptimized(frame, config, dt) ==
    IF frame.bytes = NoBuffer THEN Throw("Frame buffer is null or undefined")
    ELSE
    LET dims == calculateDimensionsOptimized(frame.width, frame.height, config)
        rgb == IF frame.pixelFormat = "yuv"
               THEN convertYUVtoRGBOptimized(frame.bytes, frame.width,
                                             frame.height)
               ELSE IF frame.pixelFormat = "rgb"
               THEN Return(frame.bytes)
               ELSE Throw("Unsupported pixel format")
    IN  IF rgb.threw THEN rgb
        ELSE
        LET resized ==
                IF dims.targetWidth # frame.width
                   \/ dims.targetHeight # frame.height
                THEN resizeRGBData(frame.width, frame.height,
                                   dims.targetWidth, dims.targetHeight)
                ELSE rgb.value
        IN  Return(PreprocessingResult(OutputType(config), resized,
                       dims.targetWidth, dims.targetHeight, dt))

----------------------------------------------------------------------------
(* PoseDetectionPipeline                                                   *)

DEFAULT_KEYPOINT_CONFIG ==
    [confidenceThreshold |-> 300, screenWidth |-> 192, screenHeight |-> 192]

(* DEFAULT_PIPELINE_CONFIG.keypointConfig of the two versions.             *)
PipelineKeypointConfig ==
    [DEFAULT_KEYPOINT_CONFIG EXCEPT !.confidenceThreshold = 100]
SimulatedKeypointConfig ==
    [DEFAULT_KEYPOINT_CONFIG EXCEPT !.confidenceThreshold = 300]

(* `error` is <<>> when the key is absent and <<message>> when present.    *)
SuccessResult(preprocessing, poseDetection, dt) ==
    [preprocessing |-> preprocessing,
     poseDetection |-> poseDetection,
     totalProcessingTime |-> dt,
     success |-> TRUE,
     error |-> <<>>]

(* The catch block of processPoseDetection.                                *)
FailedResult(frame, errorMessage, dt) ==
    [preprocessing |->
        [data |-> [type |-> "uint8", length |-> 0],
         width |-> 0, height |-> 0, channels |-> 0, processingTime |-> 0],
     poseDetection |->
        [keypoints |-> <<>>,
         screenKeypoints |-> <<>>,
         overallConfidence |-> Rat(0, 1),
         validKeypoints |-> 0,
         processingTime |-> 0,
         frameWidth |-> frame.width,
         frameHeight |-> frame.height],
     totalProcessingTime |-> dt,
     success |-> FALSE,
     error |-> <<errorMessage>>]

(* `config.mockScenario || 'standing'`; an absent scenario is "".          *)
ScenarioOrStanding(config) ==
    IF config.mockScenario = "" THEN "standing" ELSE config.mockScenario

(* config.model.runSync([data]): what the executor does is part of the     *)
(* model handle: it throws, returns null, returns [] or returns tensors.   *)
(* The inner try/catch of step 2 turns a throw and an empty result into    *)
(* the mock output.                                                        *)
(* Step 2 with a fallback to the mock output for tensors of the wrong      *)
(* length as well.                                                         *)
RunInferenceShapeFallback(config) ==
    IF ~config.enableMockMode /\ config.model.present
       /\ config.model.behaviour = "outputs" /\ Len(config.model.output) = 51
    THEN config.model.output
    ELSE generateMockMoveNetOutput(ScenarioOrStanding(config))

RunInference(config) ==
    IF config.enableMockMode
    THEN generateMockMoveNetOutput(ScenarioOrStanding(config))
    ELSE IF config.model.present
    THEN IF config.model.behaviour = "outputs"
         THEN config.model.output
         ELSE generateMockMoveNetOutput(ScenarioOrStanding(config))
    ELSE generateMockMoveNetOutput(ScenarioOrStanding(config))

(* Step 3 and the return of the try block, shared by both versions of the *)
(* pipeline: a thrown extraction error leaves the try block.               *)
ExtractAndAssemble(frame, config, preprocessingResult, modelOutput, dt) ==
    LET updatedKeypointConfig ==
            [config.keypointConfig EXCEPT !.screenWidth = frame.width,
                                          !.screenHeight = frame.height]
        poseDetectionResult ==
            extractPoseKeypoints(modelOutput, updatedKeypointConfig, dt)
    IN  IF poseDetectionResult.threw
        THEN poseDetectionResult
        ELSE Return(SuccessResult(preprocessingResult,
                                  poseDetectionResult.value, dt))

(* A pipeline without the catch block: the error propagates.               *)
PipelineCatchRethrows(frame, error, dt) == error

(* catch (error): every error thrown in the try block is an Error, so the  *)
(* message is error.message.                                               *)
PipelineCatch(frame, error, dt) ==
    Return(FailedResult(frame, error.message, dt))

(* The try block of PoseDetectionPipeline.ts with real inference.          *)
PipelineTry(frame, config, dt) ==
    LET preprocessingResult ==
            preprocessFrame(frame, config.preprocessingConfig, dt)
    IN  IF preprocessingResult.threw
        THEN preprocessingResult
        ELSE ExtractAndAssemble(frame, config, preprocessingResult.value,
                                RunInference(config), dt)

processPoseDetection(frame, config, dt) ==
    LET attempt == PipelineTry(frame, config, dt)
    IN  IF attempt.threw THEN PipelineCatch(frame, attempt, dt) ELSE attempt

(* The try block of PoseDetectionPipeline.ts with useOptimizedPreprocessing *)
(* and simulated inference: both branches of step 2 return the mock output. *)
PipelineTrySimulated(frame, config, dt) ==
    LET preprocessingResult ==
            IF config.useOptimizedPreprocessing
            THEN preprocessFrameOptimized(frame, config.preprocessingConfig, dt)
            ELSE preprocessFrame(frame, config.preprocessingConfig, dt)
    IN  IF preprocessingResult.threw
        THEN preprocessingResult
        ELSE ExtractAndAssemble(frame, config, preprocessingResult.value,
                 generateMockMoveNetOutput(ScenarioOrStanding(config)), dt)

processPoseDetectionSimulated(frame, config, dt) ==
    LET attempt == PipelineTrySimulated(frame, config, dt)
    IN  IF attempt.threw THEN PipelineCatch(frame, attempt, dt) ELSE attempt

----------------------------------------------------------------------------
(* Inputs of the pipeline.                                                 *)

FrameWidths == {0, 192, 480, 640}
FrameHeights == {192, 480, 640}
PixelFormats == {"yuv", "rgb", "unknown"}

(* Buffer lengths a frame source can deliver for a width x height frame:   *)
(* none, empty, truncated, planar YUV 4:2:0, interleaved RGB.              *)
FrameBytes(w, h) ==
    {NoBuffer, 0, (w * h) \div 2, (w * h * 3) \div 2, w * h * 3}

(* Frames whose metadata has a zero or negative dimension while the buffer *)
(* holds bytes.                                                            *)
DegenerateFrames ==
    { [width |-> d[1], height |-> d[2], pixelFormat |-> f,
       bytes |-> 480 * 480 * 3] :
        d \in { <<0, 480>>, <<480, 0>>, <<0 - 480, 480>>, <<480, 0 - 480>> },
        f \in PixelFormats }

Frames ==
    UNION { { [width |-> w, height |-> h, pixelFormat |-> f, bytes |-> b] :
                f \in PixelFormats, b \in FrameBytes(w, h) } :
            w \in FrameWidths, h \in FrameHeights }
    \cup DegenerateFrames

(* Durations measured with Date.now(), in ms.                              *)
Durations == {5, 20}

(* First output tensors of the executor: the fixtures, a tensor with       *)
(* out-of-range and non-finite values, and tensors of a wrong length.      *)
WildTensor ==
    [i \in 1..51 |->
        CASE i % 4 = 0 -> NaN
          [] i % 4 = 1 -> 0 - 250
          [] i % 4 = 2 -> PosInf
          [] OTHER -> 1500]

Tensors ==
    { generateMockMoveNetOutput("standing"),
      generateMockMoveNetOutput("low_confidence"),
      WildTensor,
      SubSeq(generateMockMoveNetOutput("standing"), 1, 50),
      generateMockMoveNetOutput("standing") \o <<0>>,
      <<>> }

NoModel == [present |-> FALSE, behaviour |-> "none", output |-> <<>>]

Models ==
    {NoModel}
    \cup { [present |-> TRUE, behaviour |-> b, output |-> <<>>] :
            b \in {"throws", "null", "empty"} }
    \cup { [present |-> TRUE, behaviour |-> "outputs", output |-> t] :
            t \in Tensors }

PipelineConfigs ==
    { [preprocessingConfig |-> MOVENET_PREPROCESSING_CONFIG,
       keypointConfig |-> PipelineKeypointConfig,
       enableMockMode |-> mock,
       mockScenario |-> sc,
       model |-> m] :
      mock \in BOOLEAN, sc \in {"", "low_confidence"}, m \in Models }

SimulatedConfigs ==
    { [useOptimizedPreprocessing |-> opt,
       preprocessingConfig |-> MOVENET_PREPROCESSING_CONFIG,
       keypointConfig |-> SimulatedKeypointConfig,
       enableMockMode |-> mock,
       mockScenario |-> sc] :
      opt \in BOOLEAN, mock \in BOOLEAN, sc \in {"", "partial"} }

----------------------------------------------------------------------------
(* usePoseDetectionFrameProcessor (frameProcessor.ts, inference hook)      *)

(* new = old * 0.9 + sample * 0.1, in microseconds, truncated (the code's  *)
(* doubles round to nearest; the difference is below one microsecond per   *)
(* step).                                                                  *)
EmaFixed(old, sample) == (9 * old + sample) \div 10
Ema(old, sampleMs) == EmaFixed(old, sampleMs * Scale)

Mean(values) == Rat(SumSeq(values), Len(values))

(* The whole buffer instead of its last three entries.                     *)
RecentWholeBuffer(buffer) == buffer

(* buffer.slice(-3)                                                        *)
Recent(buffer) ==
    IF Len(buffer) <= 3 THEN buffer
    ELSE SubSeq(buffer, Len(buffer) - 2, Len(buffer))

(* A push that never evicts.                                               *)
PushUnbounded(buffer, x, max) == Append(buffer, x)

(* buffer.push(x); if (buffer.length > max) buffer.shift();                *)
PushBounded(buffer, x, max) ==
    LET pushed == Append(buffer, x)
    IN  IF Len(pushed) > max THEN Tail(pushed) ELSE pushed

(* Object.keys(pipelineKeypoints).map(...): in insertion order, which is   *)
(* the order of KeypointNames; the failed result has no keys.              *)
KeypointArray(keypoints) ==
    LET names == SelectSeq(KeypointNames, LAMBDA n : n \in DOMAIN keypoints)
    IN  [i \in DOMAIN names |->
            [x |-> keypoints[names[i]].x,
             y |-> keypoints[names[i]].y,
             confidence |-> keypoints[names[i]].confidence,
             name |-> names[i]]]

(* The catch branch of the hook: 17 random keypoints; draws[i] holds the   *)
(* three Math.random() values of keypoint i and draws[18] the one of the   *)
(* overall confidence, each in thousandths.                                *)
FallbackKeypoints(frame, draws) ==
    [i \in 1..17 |->
        [x |-> draws[i][1] * frame.width,
         y |-> draws[i][2] * frame.height,
         confidence |-> (draws[i][3] * 4) \div 10 + 600,
         name |-> "keypoint"]]

FallbackConfidence(draws) == Rat(draws[18][1] * 3 + 7000, 10)

(* Simple temporal smoothing for keypoints (buffer.length >= 3).           *)
Smooth(buffer, simulatedKeypoints) ==
    [keypointIndex \in DOMAIN simulatedKeypoints |->
        LET recentKeypoints ==
                [j \in DOMAIN Recent(buffer) |->
                    Recent(buffer)[j].keypoints[keypointIndex]]
        IN  [x |-> Mean([j \in DOMAIN recentKeypoints |-> recentKeypoints[j].x]),
             y |-> Mean([j \in DOMAIN recentKeypoints |-> recentKeypoints[j].y]),
             confidence |->
                Mean([j \in DOMAIN recentKeypoints |->
                        recentKeypoints[j].confidence])]]

(* Smoothing two pushes early.                                             *)
WarmedUpAtOnce(buffer) == Len(buffer) >= 1

(* if (buffer.length >= 3)                                                 *)
WarmedUp(buffer) == Len(buffer) >= 3

(* The part of the callback after the try/catch: the pose data is stored,  *)
(* counted, smoothed and timed.                                            *)
StorePose(p, frame, simulatedKeypoints, confidence, processingTime) ==
    LET poseData ==
            [frameWidth |-> frame.width,
             frameHeight |-> frame.height,
             pixelFormat |-> frame.pixelFormat,
             timestamp |-> frame.timestamp,
             keypoints |-> simulatedKeypoints,
             confidence |-> confidence,
             processingTime |-> processingTime,
             frameIndex |-> p.totalFrames]
        buffer == PushBounded(p.poseBuffer, poseData, p.config.maxBufferSize)
    IN  [p EXCEPT
            !.poseBuffer = buffer,
            !.latestPoseData = <<poseData>>,
            !.successCount =
                IF RatGE(confidence, p.config.confidenceThreshold)
                THEN @ + 1 ELSE @,
            !.smoothKeypoints =
                IF WarmedUp(buffer) THEN Smooth(buffer, simulatedKeypoints)
                ELSE @,
            !.avgProcessingTime = Ema(@, processingTime)]

(* Calculate FPS: the tail of the runAtTargetFps callback.                 *)
UpdateFps(p, now) ==
    IF now - p.lastFpsCheck >= 1000
    THEN [p EXCEPT !.currentFps = Rat(p.frameCount * 1000, now - p.lastFpsCheck),
                   !.lastFpsCheck = now,
                   !.frameCount = 0]
    ELSE p

(* The fixed configuration the hook passes to processPoseDetection.        *)
HookPipelineConfig ==
    [useOptimizedPreprocessing |-> TRUE,
     preprocessingConfig |-> MOVENET_PREPROCESSING_CONFIG,
     keypointConfig |-> SimulatedKeypointConfig,
     enableMockMode |-> TRUE,
     mockScenario |-> "standing"]

(* A hook that goes on with a failed pipeline result.                      *)
PipelineFailedIgnored(pipelineResult) == FALSE

(* if (!pipelineResult.success) return;                                    *)
PipelineFailed(pipelineResult) == ~pipelineResult.success

(* One frame of the hook's worklet.  gate: runAtTargetFps runs its         *)
(* callback; outcome: what the processPoseDetection call does (it is made  *)
(* only when the callback reaches it); lastPipeline records that outcome;  *)
(* dt: Date.now() - startTime in the catch branch.                         *)
PoseFrameProcessor(p, frame, gate, outcome, draws, dt, now) ==
    LET counted == [p EXCEPT !.frameCount = @ + 1,
                             !.totalFrames = @ + 1,
                             !.now = now,
                             !.lastPipeline = <<>>]
    IN  IF ~gate THEN counted
        ELSE IF frame.width < 480 \/ frame.height < 480 THEN counted
        ELSE IF ~p.config.enableRealTimeInference THEN UpdateFps(counted, now)
        ELSE
        LET called == [counted EXCEPT !.lastPipeline = <<outcome>>]
        IN  IF outcome.threw
            THEN UpdateFps(StorePose(called, frame,
                                     FallbackKeypoints(frame, draws),
                                     FallbackConfidence(draws),
                                     dt), now)
            ELSE IF PipelineFailed(outcome.value) THEN called
            ELSE UpdateFps(StorePose(called, frame,
                     KeypointArray(outcome.value.poseDetection.keypoints),
                     outcome.value.poseDetection.overallConfidence,
                     outcome.value.totalProcessingTime), now)

----------------------------------------------------------------------------
(* State of the components before any frame is delivered.                  *)

(* No call of processPoseDetection has returned yet.                       *)
PipeIdle ==
    [called |-> FALSE, version |-> "none", frame |-> <<>>, config |-> <<>>,
     outcome |-> <<>>]

(* The shared values of usePoseDetectionFrameProcessor after mounting;     *)
(* latestPoseData is <<>> for null; ticks counts the frames delivered.     *)
FreshPose(config) ==
    [hook |-> "inference",
     config |-> config,
     frameCount |-> 0,
     totalFrames |-> 0,
     successCount |-> 0,
     avgProcessingTime |-> 0,
     currentFps |-> Rat(0, 1),
     lastFpsCheck |-> 0,
     poseBuffer |-> <<>>,
     latestPoseData |-> <<>>,
     smoothKeypoints |-> <<>>,
     now |-> 0,
     lastPipeline |-> <<>>,
     ticks |-> 0]

FreshPrep == [poseDataBuffer |-> <<>>, ticks |-> 0]

(* The shared values of useAdvancedFrameProcessor after mounting.          *)
FreshGov(config) ==
    [config |-> config,
     frameCount |-> 0,
     lastProcessingTime |-> 0,
     avgProcessingTime |-> 0,
     lastFpsCheck |-> 0,
     currentFps |-> Rat(0, 1),
     framesSkipped |-> 0,
     cpuLoadHigh |-> FALSE,
     memoryUsage |-> 0,
     processingTimes |-> <<>>,
     now |-> 0,
     ticks |-> 0,
     last |-> [outcome |-> "none", drewRandom |-> FALSE, frameData |-> <<>>,
               frame |-> <<>>]]

(* usePoseDetectionFrameProcessor(config = {}): the destructuring defaults *)
DefaultPoseConfig ==
    [enableRealTimeInference |-> FALSE,
     targetFps |-> 25,
     confidenceThreshold |-> 300,
     maxBufferSize |-> 10]

(* useAdvancedFrameProcessor(config = {}): the destructuring defaults.     *)
DefaultGovConfig ==
    [targetFps |-> 30,
     enableMetrics |-> TRUE,
     enableMemoryOptimization |-> TRUE,
     enableFrameSkipping |-> TRUE,
     memoryThreshold |-> 50]

----------------------------------------------------------------------------
(* Calls of processPoseDetection on arbitrary frames and configurations.   *)
(* The function keeps no state between calls, so a behaviour is one call.  *)

CallPipeline ==
    \E frame \in Frames, config \in PipelineConfigs, dt \in Durations :
        /\ ~pipe.called
        /\ pipe' = [called |-> TRUE, version |-> "pipeline", frame |-> frame,
                    config |-> config,
                    outcome |-> processPoseDetection(frame, config, dt)]
        /\ UNCHANGED <<pose, prep, gov>>

CallPipelineSimulated ==
    \E frame \in Frames, config \in SimulatedConfigs, dt \in Durations :
        /\ ~pipe.called
        /\ pipe' = [called |-> TRUE, version |-> "simulated", frame |-> frame,
                    config |-> config,
                    outcome |-> processPoseDetectionSimulated(frame, config, dt)]
        /\ UNCHANGED <<pose, prep, gov>>

PipelineInit ==
    /\ pipe = PipeIdle
    /\ pose = FreshPose(DefaultPoseConfig)
    /\ prep = FreshPrep
    /\ gov = FreshGov(DefaultGovConfig)

PipelineNext == CallPipeline \/ CallPipelineSimulated

PipelineSpec == PipelineInit /\ [][PipelineNext]_vars

(* The executor was asked for real inference and failed.                   *)
ExecutorFailed ==
    /\ pipe.called
    /\ pipe.version = "pipeline"
    /\ ~pipe.config.enableMockMode
    /\ pipe.config.model.present
    /\ pipe.config.model.behaviour \in {"throws", "null", "empty"}

(* C1: if the injected model executor throws or returns no outputs,        *)
(* processPoseDetection does not throw and returns success=false with a    *)
(* non-empty error message.                                                *)
C1_ExecutorFailureReported ==
    ExecutorFailed =>
        /\ ~pipe.outcome.threw
        /\ ~pipe.outcome.value.success
        /\ pipe.outcome.value.error # <<>>
        /\ pipe.outcome.value.error # <<"">>

(* The executor ran (preprocessing succeeded) and its first output tensor  *)
(* has a length other than 51.                                             *)
ExecutorReturnedWrongShape ==
    /\ pipe.called
    /\ pipe.version = "pipeline"
    /\ ~pipe.config.enableMockMode
    /\ pipe.config.model.present
    /\ pipe.config.model.behaviour = "outputs"
    /\ Len(pipe.config.model.output) # 51
    /\ ~preprocessFrame(pipe.frame, pipe.config.preprocessingConfig, 0).threw

(* C12: if the executor returns a first output tensor whose length is not  *)
(* 51, processPoseDetection returns success=false with the shape error in  *)
(* `error`, and no mock or default keypoints in its result.                *)
C12_WrongShapeReported ==
    ExecutorReturnedWrongShape =>
        /\ ~pipe.outcome.threw
        /\ ~pipe.outcome.value.success
        /\ pipe.outcome.value.error =
              << "Keypoint extraction error: Invalid MoveNet output shape" >>
        /\ DOMAIN pipe.outcome.value.poseDetection.keypoints = {}
        /\ DOMAIN pipe.outcome.value.poseDetection.screenKeypoints = {}

C12_Witness ==
    /\ ExecutorReturnedWrongShape
    /\ Len(pipe.config.model.output) = 50
    /\ ~pipe.outcome.value.success

(* processPoseDetection was called on a 480x640 YUV 4:2:0 frame with an    *)
(* executor that returns the standing fixture.                             *)
StandingEndToEnd ==
    /\ pipe.called
    /\ pipe.version = "pipeline"
    /\ pipe.frame.width = 480
    /\ pipe.frame.height = 640
    /\ pipe.frame.pixelFormat = "yuv"
    /\ pipe.frame.bytes = (480 * 640 * 3) \div 2
    /\ ~pipe.config.enableMockMode
    /\ pipe.config.model.present
    /\ pipe.config.model.behaviour = "outputs"
    /\ pipe.config.model.output = Flatten(StandingFixture)

(* |a - b| <= 0.001, both in thousandths.                                  *)
WithinThousandth(a, b) == a - b <= 1 /\ b - a <= 1

(* C16 as stated: in the end-to-end standing scenario the result has       *)
(* success=true, poseDetection.keypoints.nose within 0.001 of              *)
(* (0.5 * screenWidth, 0.15 * screenHeight), and overallConfidence > 0.9.  *)
C16_NoseOfKeypointsInScreenSpace ==
    StandingEndToEnd =>
        /\ pipe.outcome.value.success
        /\ WithinThousandth(pipe.outcome.value.poseDetection.keypoints["nose"].x,
                            500 * pipe.frame.width)
        /\ WithinThousandth(pipe.outcome.value.poseDetection.keypoints["nose"].y,
                            150 * pipe.frame.height)
        /\ RatGT(pipe.outcome.value.poseDetection.overallConfidence, 900)

(* C16, amended: in the end-to-end standing scenario the result has        *)
(* success=true, poseDetection.screenKeypoints.nose within 0.001 of        *)
(* (0.5 * screenWidth, 0.15 * screenHeight), screenWidth and screenHeight  *)
(* being the frame's, poseDetection.keypoints.nose within 0.001 of the     *)
(* normalized (0.5, 0.15), and overallConfidence > 0.9.                    *)
C16_NoseOfScreenKeypoints ==
    StandingEndToEnd =>
        /\ ~pipe.outcome.threw
        /\ pipe.outcome.value.success
        /\ pipe.outcome.value.poseDetection.frameWidth = 480
        /\ pipe.outcome.value.poseDetection.frameHeight = 640
        /\ WithinThousandth(
              pipe.outcome.value.poseDetection.screenKeypoints["nose"].x,
              500 * 480)
        /\ WithinThousandth(
              pipe.outcome.value.poseDetection.screenKeypoints["nose"].y,
              150 * 640)
        /\ WithinThousandth(pipe.outcome.value.poseDetection.keypoints["nose"].x,
                            500)
        /\ WithinThousandth(pipe.outcome.value.poseDetection.keypoints["nose"].y,
                            150)
        /\ RatGT(pipe.outcome.value.poseDetection.overallConfidence, 900)

C16_Witness ==
    /\ StandingEndToEnd
    /\ pipe.outcome.value.success
    /\ pipe.outcome.value.poseDetection.screenKeypoints["nose"].x = 240 * Scale

(* The frame has a non-positive dimension, an empty buffer or a pixel       *)
(* format other than 'yuv' and 'rgb'.                                      *)
InvalidFrame(frame) ==
    \/ frame.width <= 0
    \/ frame.height <= 0
    \/ frame.bytes = 0
    \/ frame.pixelFormat \notin {"yuv", "rgb"}

(* C21: for a frame with non-positive width or height, an empty pixel      *)
(* buffer or an unsupported pixel format, preprocessing fails with an      *)
(* error before producing any buffer, and processPoseDetection returns     *)
(* success=false with that error instead of throwing.                      *)
C21_InvalidFramesDropped ==
    (pipe.called /\ pipe.version = "pipeline" /\ InvalidFrame(pipe.frame)) =>
        /\ preprocessFrame(pipe.frame, pipe.config.preprocessingConfig, 0).threw
        /\ ~pipe.outcome.threw
        /\ ~pipe.outcome.value.success
        /\ pipe.outcome.value.error =
              << preprocessFrame(pipe.frame, pipe.config.preprocessingConfig,
                                 0).message >>
        /\ pipe.outcome.value.preprocessing.data.length = 0

(* The part of C21 that holds: frames in 'yuv' format, and frames without  *)
(* bytes or in an unsupported format, are dropped with an error.           *)
InvalidFramesDroppedUnlessRGB ==
    (/\ pipe.called
     /\ pipe.version = "pipeline"
     /\ InvalidFrame(pipe.frame)
     /\ (pipe.frame.pixelFormat # "rgb" \/ pipe.frame.bytes = 0)) =>
        /\ ~pipe.outcome.threw
        /\ ~pipe.outcome.value.success
        /\ pipe.outcome.value.error # <<>>

ZeroedSubResults(result) ==
    /\ result.preprocessing.width = 0
    /\ result.preprocessing.height = 0
    /\ result.preprocessing.channels = 0
    /\ result.preprocessing.data.length = 0
    /\ RatEq(result.poseDetection.overallConfidence, 0)
    /\ result.poseDetection.validKeypoints = 0
    /\ DOMAIN result.poseDetection.keypoints = {}

(* C2: every call of processPoseDetection returns a PipelineResult and     *)
(* never throws; success=false exactly when error is present; a failed     *)
(* result carries zeroed sub-results and no keypoints; a successful result *)
(* carries exactly the 17 named keypoints.                                 *)
C2_AlwaysOneResult ==
    pipe.called =>
        /\ ~pipe.outcome.threw
        /\ (pipe.outcome.value.success = FALSE)
              <=> (pipe.outcome.value.error # <<>>)
        /\ ~pipe.outcome.value.success => ZeroedSubResults(pipe.outcome.value)
        /\ pipe.outcome.value.success =>
              /\ DOMAIN pipe.outcome.value.poseDetection.keypoints
                    = KeypointNameSet
              /\ Cardinality(KeypointNameSet) = 17

(* Both versions have returned failed results from each step that can      *)
(* throw, and successful ones.                                             *)
C2_Witness ==
    /\ pipe.called
    /\ pipe.version = "pipeline"
    /\ ~pipe.outcome.threw
    /\ ~pipe.outcome.value.success
    /\ pipe.outcome.value.error
          = <<"Keypoint extraction error: Invalid MoveNet output shape">>

----------------------------------------------------------------------------
(* The pose-detection frame processors under a stream of camera frames.    *)

(* Frames delivered per behaviour.                                         *)
MaxFrames == 4

(* Time between two frames, in ms.                                         *)
FramePeriods == {400}

(* Camera frames: too small or large enough, in a format the optimized     *)
(* preprocessor converts or rejects.                                       *)
HookFrames ==
    { f \in Frames :
        /\ f.width \in {192, 480}
        /\ f.height = 480
        /\ f.pixelFormat \in {"yuv", "unknown"}
        /\ f.bytes = (f.width * f.height * 3) \div 2 }

Stamp(frame, timestamp) ==
    [width |-> frame.width, height |-> frame.height,
     pixelFormat |-> frame.pixelFormat, bytes |-> frame.bytes,
     timestamp |-> timestamp]

(* Math.random() values of the catch branch, in thousandths.               *)
NoDraws == <<>>
DrawSets == { [i \in 1..18 |-> <<r, r, r>>] : r \in {0, 999} }

(* The configurations the hook is mounted with: the default capacity, used *)
(* by both screens, and a smaller one.                                     *)
PoseConfigs ==
    { [DefaultPoseConfig EXCEPT !.enableRealTimeInference = rt,
                                !.maxBufferSize = max] :
      rt \in BOOLEAN, max \in {5, DefaultPoseConfig.maxBufferSize} }

GoodFrame ==
    CHOOSE f \in HookFrames : f.width = 480 /\ f.pixelFormat = "yuv"

(* The state after n good frames were processed with inference enabled.    *)
RECURSIVE PoseAfter(_, _)
PoseAfter(n, config) ==
    IF n = 0 THEN FreshPose(config)
    ELSE
    LET p == PoseAfter(n - 1, config)
        now == p.now + 400
        frame == Stamp(GoodFrame, now)
        q == PoseFrameProcessor(
                 [p EXCEPT !.config.enableRealTimeInference = TRUE],
                 frame, TRUE,
                 processPoseDetectionSimulated(frame, HookPipelineConfig, 5),
                 NoDraws, 5, now)
    IN  [q EXCEPT !.config = config, !.lastPipeline = <<>>]

(* Frames already processed when the observation starts.                   *)
WarmFrames == {0, 4, 9}

(* A frame arrives at the inference hook.                                  *)
FrameTick ==
    \E f \in HookFrames, gate \in BOOLEAN, dt \in Durations,
       period \in FramePeriods :
        LET now == pose.now + period
            frame == Stamp(f, now)
            outcome == processPoseDetectionSimulated(frame, HookPipelineConfig,
                                                     dt)
        IN  \E draws \in IF outcome.threw THEN DrawSets ELSE {NoDraws} :
              /\ pose.hook = "inference"
              /\ pose.ticks < MaxFrames
              /\ pose' = [PoseFrameProcessor(pose, frame, gate, outcome, draws,
                                             dt, now)
                            EXCEPT !.ticks = @ + 1]
              /\ UNCHANGED <<pipe, prep, gov>>

(* The switch of the test screens: updateConfig('enableRealTimeInference') *)
(* re-creates the worklet over the same shared values.                     *)
ToggleRealTimeInference ==
    /\ pose.hook = "inference"
    /\ pose' = [pose EXCEPT !.config.enableRealTimeInference = ~@,
                            !.lastPipeline = <<>>]
    /\ UNCHANGED <<pipe, prep, gov>>

(* A frame arrives at the preparation-only hook (errorRecovery.ts).        *)
PrepFrameProcessor(buffer, frame, gate) ==
    IF ~gate THEN buffer
    ELSE IF frame.width < 480 \/ frame.height < 480 THEN buffer
    ELSE PushBounded(buffer,
                     [width |-> frame.width,
                      height |-> frame.height,
                      pixelFormat |-> frame.pixelFormat,
                      timestamp |-> frame.timestamp,
                      keypoints |-> <<>>,
                      confidence |-> 0,
                      processingTime |-> 0],
                     5)

MaxPrepFrames == 7

PrepTick ==
    \E f \in HookFrames, gate \in BOOLEAN, period \in FramePeriods :
        /\ pose.hook = "preparation"
        /\ prep.ticks < MaxPrepFrames
        /\ prep' = [poseDataBuffer |->
                        PrepFrameProcessor(prep.poseDataBuffer,
                            Stamp(f, (prep.ticks + 1) * period), gate),
                    ticks |-> prep.ticks + 1]
        /\ UNCHANGED <<pipe, pose, gov>>

PoseInit ==
    /\ pipe = PipeIdle
    /\ prep = FreshPrep
    /\ gov = FreshGov(DefaultGovConfig)
    /\ \/ \E n \in WarmFrames, config \in PoseConfigs :
            pose = PoseAfter(n, config)
       \/ pose = [FreshPose(DefaultPoseConfig) EXCEPT !.hook = "preparation"]

PoseNext == FrameTick \/ ToggleRealTimeInference \/ PrepTick

PoseSpec == PoseInit /\ [][PoseNext]_vars

----------------------------------------------------------------------------
(* Properties of the frame processors.                                     *)

(* The step is a frame of the inference hook whose pipeline run failed.    *)
FailedTick ==
    /\ pose'.ticks = pose.ticks + 1
    /\ pose'.lastPipeline # <<>>
    /\ \/ pose'.lastPipeline[1].threw
       \/ ~pose'.lastPipeline[1].value.success

(* A complete keypoint set of the extractor: the 17 names in order, every  *)
(* coordinate and confidence within [0, 1].                                *)
CompleteKeypointSet(keypoints) ==
    /\ Len(keypoints) = 17
    /\ \A i \in 1..17 :
        /\ keypoints[i].name = KeypointNames[i]
        /\ keypoints[i].x \in 0..Scale
        /\ keypoints[i].y \in 0..Scale
        /\ keypoints[i].confidence \in 0..Scale

LastN(s, n) == IF Len(s) <= n THEN s ELSE SubSeq(s, Len(s) - n + 1, Len(s))

(* C9 as stated: the pose snapshot buffer holds at most 5 entries.         *)
C9_AtMostFive ==
    /\ Len(pose.poseBuffer) <= 5
    /\ Len(prep.poseDataBuffer) <= 5

(* C9: the pose snapshot buffer of the inference hook holds at most        *)
(* maxBufferSize entries (10 by default and in both screens) and the one   *)
(* of the preparation hook at most 5; a push onto a full buffer evicts     *)
(* exactly the oldest entry, so the buffer is the most recent pushes in    *)
(* arrival order, and a tick that pushes nothing leaves the buffer alone.  *)
C9_BoundedByCapacity ==
    /\ [](/\ Len(pose.poseBuffer) <= pose.config.maxBufferSize
          /\ Len(prep.poseDataBuffer) <= 5
          /\ \A i \in 1..(Len(pose.poseBuffer) - 1) :
                pose.poseBuffer[i].frameIndex < pose.poseBuffer[i + 1].frameIndex)
    /\ [][IF pose'.latestPoseData # pose.latestPoseData
          THEN pose'.poseBuffer
                 = LastN(pose.poseBuffer \o pose'.latestPoseData,
                         pose.config.maxBufferSize)
          ELSE pose'.poseBuffer = pose.poseBuffer]_vars
    /\ [][\/ prep'.poseDataBuffer = prep.poseDataBuffer
          \/ /\ prep'.poseDataBuffer # <<>>
             /\ prep'.poseDataBuffer
                  = LastN(Append(prep.poseDataBuffer,
                                 prep'.poseDataBuffer[Len(prep'.poseDataBuffer)]),
                          5)
             /\ prep'.poseDataBuffer[Len(prep'.poseDataBuffer)].timestamp
                  > prep.ticks * 400 ]_vars

(* A full buffer of the default capacity has evicted its oldest entries.   *)
C9_Witness ==
    /\ Len(pose.poseBuffer) = 10
    /\ pose.poseBuffer[1].frameIndex > 1
    /\ pose.ticks > 1

----------------------------------------------------------------------------
(* The smoother under changing poses.  The hook passes the fixed scenario  *)
(* 'standing' to the pipeline, so every snapshot it pushes is the same;    *)
(* here the scenario of each frame is an input, which is what the pipeline *)
(* returns once the fixture is replaced by a model that follows the scene. *)

AnyPoseConfigs ==
    { [HookPipelineConfig EXCEPT !.mockScenario = sc] : sc \in Scenarios }

FrameTickAnyPose ==
    \E gate \in BOOLEAN, config \in AnyPoseConfigs, period \in FramePeriods :
        LET now == pose.now + period
            frame == Stamp(GoodFrame, now)
            outcome == processPoseDetectionSimulated(frame, config, 5)
        IN  /\ pose.ticks < MaxFrames
            /\ pose' = [PoseFrameProcessor(pose, frame, gate, outcome, NoDraws,
                                           5, now)
                          EXCEPT !.ticks = @ + 1]
            /\ UNCHANGED <<pipe, prep, gov>>

SmoothInit ==
    /\ pipe = PipeIdle
    /\ prep = FreshPrep
    /\ gov = FreshGov(DefaultGovConfig)
    /\ \E config \in PoseConfigs :
        /\ config.enableRealTimeInference
        /\ pose = FreshPose(config)

SmoothNext == FrameTickAnyPose

SmoothSpec == SmoothInit /\ [][SmoothNext]_vars

(* The newest entry of the pose buffer.                                    *)
Newest(k) == pose.poseBuffer[Len(pose.poseBuffer) - k]

(* C7: starting from an empty buffer the smoothed keypoint set is absent   *)
(* after the 1st and 2nd successful push and present after the 3rd and     *)
(* every later one; after 3 identical pushes the smoothed x, y and         *)
(* confidence of every keypoint equal the pushed values exactly.           *)
C7_WarmUp ==
    /\ Len(pose.poseBuffer) < 3 => pose.smoothKeypoints = <<>>
    /\ Len(pose.poseBuffer) >= 3 =>
        /\ Len(pose.smoothKeypoints) = 17
        /\ (Newest(0).keypoints = Newest(1).keypoints
            /\ Newest(1).keypoints = Newest(2).keypoints) =>
              \A i \in 1..17 :
                /\ RatEq(pose.smoothKeypoints[i].x, Newest(0).keypoints[i].x)
                /\ RatEq(pose.smoothKeypoints[i].y, Newest(0).keypoints[i].y)
                /\ RatEq(pose.smoothKeypoints[i].confidence,
                         Newest(0).keypoints[i].confidence)

(* Exactly three pushes were made, all of the same pose.                   *)
C7_Witness ==
    /\ Len(pose.poseBuffer) = 3
    /\ pose.successCount = 3
    /\ Newest(0).keypoints = Newest(1).keypoints
    /\ Newest(1).keypoints = Newest(2).keypoints
    /\ pose.smoothKeypoints # <<>>

(* C8: the smoothed x, y and confidence of keypoint i is the arithmetic    *)
(* mean of keypoint i over exactly the 3 most recently pushed snapshots,   *)
(* whatever older snapshots the buffer still holds.                        *)
C8_WindowOfThree ==
    Len(pose.poseBuffer) >= 3 =>
        /\ DOMAIN pose.smoothKeypoints = 1..17
        /\ \A i \in 1..17 :
            /\ pose.smoothKeypoints[i].x
                 = Rat(Newest(2).keypoints[i].x + Newest(1).keypoints[i].x
                       + Newest(0).keypoints[i].x, 3)
            /\ pose.smoothKeypoints[i].y
                 = Rat(Newest(2).keypoints[i].y + Newest(1).keypoints[i].y
                       + Newest(0).keypoints[i].y, 3)
            /\ pose.smoothKeypoints[i].confidence
                 = Rat(Newest(2).keypoints[i].confidence
                       + Newest(1).keypoints[i].confidence
                       + Newest(0).keypoints[i].confidence, 3)

(* Four snapshots of four different poses are held.                        *)
C8_Witness ==
    /\ Len(pose.poseBuffer) >= 4
    /\ Cardinality({ Newest(k).keypoints : k \in 0..3 }) = 4
    /\ pose.smoothKeypoints # <<>>

----------------------------------------------------------------------------
(* useAdvancedFrameProcessor (errorRecovery.ts): the governor.             *)
(* Processing times are in ms, avgProcessingTime in microseconds and       *)
(* memory in KB (1 MB = 1024 KB); the frames used have whole KB sizes.     *)

(* highCPUThreshold = 16.67 ms, in hundredths of a ms.                     *)
highCPUThreshold == 1667

(* times.length > 30: the capacity of the processing-time window.          *)
maxSamples == 30

(* times.length > 5: the samples the CPU check waits for.                  *)
minSamples == 5

(* Math.random() < 0.3, in thousandths.                                    *)
skipProbability == 300

(* (frame.width * frame.height * 4) / (1024 * 1024) MB, in KB.             *)
estimatedMemory(frame) == (frame.width * frame.height * 4) \div 1024

(* A governor that never sees memory pressure.                             *)
MemoryPressureNever(g) == FALSE

(* enableMemoryOptimization && memoryUsage.value > memoryThresholdValue    *)
MemoryPressure(g) ==
    /\ g.config.enableMemoryOptimization
    /\ g.memoryUsage > g.config.memoryThreshold * 1024

(* times.reduce((a, b) => a + b, 0) / times.length > highCPUThreshold      *)
HighAverage(times) == 100 * SumSeq(times) > highCPUThreshold * Len(times)

(* A window that drops the newest sample on overflow.                      *)
PushProcessingTimeKeepOldest(times, processingTime) ==
    IF Len(times) >= maxSamples THEN times ELSE Append(times, processingTime)

(* times.push(processingTime); if (times.length > 30) times.shift();       *)
PushProcessingTime(times, processingTime) ==
    LET pushed == Append(times, processingTime)
    IN  IF Len(pushed) > maxSamples THEN Tail(pushed) ELSE pushed

(* The enableMetrics block of the runAtTargetFps callback.                 *)
UpdateMetrics(g, frame, processingTime, now) ==
    UpdateFps([g EXCEPT
                  !.lastProcessingTime = processingTime,
                  !.processingTimes = PushProcessingTime(@, processingTime),
                  !.avgProcessingTime = Ema(@, processingTime),
                  !.memoryUsage = EmaFixed(@, estimatedMemory(frame)),
                  !.last.outcome = "processed"],
              now)

(* One frame of the governor's worklet.  gate: runAtTargetFps runs its     *)
(* callback; draw: the value Math.random() returns if it is called;        *)
(* processingTime: Date.now() - startTime; last records what the tick did. *)
GovFrameProcessor(g, frame, gate, draw, processingTime, now) ==
    LET counted ==
            [g EXCEPT !.frameCount = @ + 1,
                      !.now = now,
                      !.last = [outcome |-> "passed", drewRandom |-> FALSE,
                                frameData |-> <<>>, frame |-> frame]]
        checksCpu == g.config.enableFrameSkipping
                     /\ Len(g.processingTimes) > minSamples
        draws == checksCpu /\ HighAverage(g.processingTimes)
        drawn == [counted EXCEPT !.last.drewRandom = draws]
        cleared == IF checksCpu /\ ~HighAverage(g.processingTimes)
                   THEN [drawn EXCEPT !.cpuLoadHigh = FALSE]
                   ELSE drawn
        frameData == [width |-> frame.width,
                      height |-> frame.height,
                      pixelFormat |-> frame.pixelFormat,
                      timestamp |-> frame.timestamp,
                      processingTime |-> processingTime,
                      frameIndex |-> counted.frameCount]
        measured == IF gate /\ g.config.enableMetrics
                    THEN UpdateMetrics(cleared, frame, processingTime, now)
                    ELSE cleared
    IN  IF MemoryPressure(g)
        THEN [counted EXCEPT !.framesSkipped = @ + 1,
                             !.last.outcome = "memory"]
        ELSE IF draws /\ draw < skipProbability
        THEN [drawn EXCEPT !.framesSkipped = @ + 1,
                           !.cpuLoadHigh = TRUE,
                           !.last.outcome = "cpu"]
        ELSE [measured EXCEPT !.last.frameData = <<frameData>>]

----------------------------------------------------------------------------
(* The governor under a stream of camera frames.                           *)

(* Frames delivered per behaviour.                                         *)
MaxGovTicks == 4

(* A VGA, an HD and an 8K frame: 1200 KB, 3600 KB and 129600 KB.           *)
SmallFrame == [width |-> 640, height |-> 480, pixelFormat |-> "yuv"]
MediumFrame == [width |-> 1280, height |-> 720, pixelFormat |-> "yuv"]
BigFrame == [width |-> 7680, height |-> 4320, pixelFormat |-> "yuv"]

GovFrames == {SmallFrame, BigFrame}

StampGov(frame, timestamp) ==
    [width |-> frame.width, height |-> frame.height,
     pixelFormat |-> frame.pixelFormat, timestamp |-> timestamp]

(* Processing times of a frame, in ms: below and above the threshold.      *)
ProcessingTimes == {10, 20}

(* A draw that skips and a draw that does not, in thousandths.             *)
RandomDraws == {0, 500}

(* The default configuration, which is what the camera screen passes with  *)
(* its own target rate, and the ones with one feature switched off.        *)
GovConfigs ==
    { DefaultGovConfig,
      [DefaultGovConfig EXCEPT !.enableMemoryOptimization = FALSE],
      [DefaultGovConfig EXCEPT !.enableFrameSkipping = FALSE],
      [DefaultGovConfig EXCEPT !.enableMetrics = FALSE] }

(* The state after n frames of one kind were delivered and none skipped by *)
(* the random draw.                                                        *)
RECURSIVE GovAfter(_, _, _, _)
GovAfter(n, frame, processingTime, config) ==
    IF n = 0 THEN FreshGov(config)
    ELSE
    LET g == GovAfter(n - 1, frame, processingTime, config)
        now == g.now + 400
    IN  IF g.now < 0 THEN g     \* never: it only has g computed first
        ELSE GovFrameProcessor(g, StampGov(frame, now), TRUE, 500,
                               processingTime, now)

(* Histories the observation starts from: none; six slow small frames;     *)
(* a window one short of full; four 8K frames.                             *)
WarmGov ==
    { [n |-> 0, frame |-> SmallFrame, processingTime |-> 10],
      [n |-> 6, frame |-> SmallFrame, processingTime |-> 20],
      [n |-> 29, frame |-> SmallFrame, processingTime |-> 10],
      [n |-> 4, frame |-> BigFrame, processingTime |-> 10] }

GovStart(config) ==
    { [GovAfter(w.n, w.frame, w.processingTime, config)
         EXCEPT !.ticks = 0, !.last = FreshGov(config).last] : w \in WarmGov }

(* A frame arrives at the governor.                                        *)
GovTick ==
    \E f \in GovFrames, gate \in BOOLEAN, processingTime \in ProcessingTimes,
       draw \in RandomDraws, period \in FramePeriods :
        LET now == gov.now + period
        IN  /\ gov.ticks < MaxGovTicks
            /\ gov' = [GovFrameProcessor(gov, StampGov(f, now), gate, draw,
                                         processingTime, now)
                         EXCEPT !.ticks = @ + 1]
            /\ UNCHANGED <<pipe, pose, prep>>

GovInit ==
    /\ pipe = PipeIdle
    /\ pose = FreshPose(DefaultPoseConfig)
    /\ prep = FreshPrep
    /\ \E config \in GovConfigs : gov \in GovStart(config)

GovNext == GovTick

GovSpec == GovInit /\ [][GovNext]_vars

----------------------------------------------------------------------------
(* Properties of the governor.                                             *)

(* The step delivers a frame to the governor.                              *)
GovStep == gov'.ticks = gov.ticks + 1

OverThreshold ==
    /\ gov.config.enableMemoryOptimization
    /\ gov.memoryUsage > gov.config.memoryThreshold * 1024

MeanOverThreshold ==
    /\ Len(gov.processingTimes) > minSamples
    /\ 100 * SumSeq(gov.processingTimes)
         > highCPUThreshold * Len(gov.processingTimes)

(* C4: on every tick that passes the memory gate with frame skipping       *)
(* enabled, if the mean of the processing-time window exceeds 16.67 ms     *)
(* then the high-CPU-load flag is true after that tick, whether or not the *)
(* random draw skips the frame, and the flag stays true until a tick       *)
(* observes a mean at or below the threshold.                              *)
C4_FlagFollowsMean ==
    [][(/\ GovStep
        /\ ~OverThreshold
        /\ gov.config.enableFrameSkipping
        /\ MeanOverThreshold) => gov'.cpuLoadHigh]_vars

(* C10: the processing-time window holds at most 30 samples, a sample is   *)
(* appended only by a tick that was not skipped, and on overflow exactly   *)
(* the oldest sample is dropped.                                           *)
C10_RollingWindow ==
    /\ [](Len(gov.processingTimes) <= 30)
    /\ [][\/ gov'.processingTimes = gov.processingTimes
          \/ /\ GovStep
             /\ gov'.last.outcome = "processed"
             /\ gov'.framesSkipped = gov.framesSkipped
             /\ gov'.processingTimes
                  = LastN(Append(gov.processingTimes, gov'.lastProcessingTime),
                          30)]_vars
    /\ [][(GovStep /\ gov'.last.outcome \in {"memory", "cpu"}) =>
            gov'.processingTimes = gov.processingTimes]_vars
    /\ [][(GovStep /\ gov'.last.outcome = "processed") =>
            gov'.processingTimes
              = LastN(Append(gov.processingTimes, gov'.lastProcessingTime),
                      30)]_vars

(* A full window has taken a slow sample and dropped its oldest, fast one. *)
C10_Witness ==
    /\ Len(gov.processingTimes) = 30
    /\ gov.last.outcome = "processed"
    /\ gov.processingTimes[30] = 20
    /\ gov.processingTimes[29] = 20
    /\ gov.processingTimes[1] = 10

----------------------------------------------------------------------------
(* The governor in a session that does not end: the camera keeps           *)
(* delivering frames.  Frames that pass the memory gate are bounded by     *)
(* MaxLiveTicks; frames skipped for memory pressure are not bounded.  To   *)
(* keep the states finite the counters that steer nothing are capped and   *)
(* the clock is read relative to the last FPS check.                       *)

MaxLiveTicks == 3

CounterCap == 2

LiveFrames == {SmallFrame, MediumFrame, BigFrame}

Capped(g) ==
    [g EXCEPT !.frameCount = Min(@, CounterCap),
              !.framesSkipped = Min(@, CounterCap),
              !.now = Min(g.now - g.lastFpsCheck, 1000),
              !.lastFpsCheck = 0,
              !.last.frameData = <<>>,
              !.last.frame = [width |-> g.last.frame.width,
                              height |-> g.last.frame.height,
                              pixelFormat |-> g.last.frame.pixelFormat,
                              timestamp |-> 0]]

GovLiveTick ==
    \E f \in LiveFrames, gate \in BOOLEAN, draw \in RandomDraws,
       period \in FramePeriods :
        LET now == gov.now + period
            next == GovFrameProcessor(gov, StampGov(f, now), gate, draw, 10,
                                      now)
        IN  /\ MemoryPressure(gov) \/ gov.ticks < MaxLiveTicks
            /\ gov' = Capped([next EXCEPT !.ticks =
                                IF MemoryPressure(gov) THEN @ ELSE @ + 1])
            /\ UNCHANGED <<pipe, pose, prep>>

LiveInit ==
    /\ pipe = PipeIdle
    /\ pose = FreshPose(DefaultPoseConfig)
    /\ prep = FreshPrep
    /\ gov \in { Capped([g EXCEPT !.last.frame = StampGov(SmallFrame, 0)]) :
                 g \in GovStart(DefaultGovConfig) }

LiveNext == GovLiveTick

(* The camera delivers a frame to the worklet again and again.             *)
LiveSpec == LiveInit /\ [][LiveNext]_vars /\ WF_vars(GovLiveTick)

(* The estimated memory cost of the frame delivered last is below the     *)
(* threshold.                                                              *)
LastFrameBelowThreshold ==
    estimatedMemory(gov.last.frame) < gov.config.memoryThreshold * 1024

SkippedForMemory == gov.last.outcome = "memory" /\ LastFrameBelowThreshold

PassedMemoryGate == gov.last.outcome \in {"passed", "processed", "cpu"}

(* A later tick passed the memory gate, or a frame at or above the         *)
(* threshold was delivered.                                                *)
Reconsidered == PassedMemoryGate \/ ~LastFrameBelowThreshold

(* C5: if a tick is skipped for memory pressure and from then on every     *)
(* delivered frame has an estimated memory cost below the threshold, then  *)
(* eventually some later tick is not skipped for memory pressure.          *)
C5_RetryByWaiting ==
    SkippedForMemory ~> Reconsidered

----------------------------------------------------------------------------
(* Calls of extractPoseKeypoints on arbitrary tensors.  The function keeps *)
(* no state, so a behaviour is one call: the inputs are drawn in the       *)
(* initial state and the call stores its completion.                       *)

(* Tensor elements outside [0, 1], at its ends, at the two thresholds and  *)
(* non-finite.                                                             *)
SpecialValues ==
    << NaN, NegInf, 0 - 250, 0, 1, 100, 300, 999, Scale, 1500, PosInf >>

SpecialAt(i) == SpecialValues[((i - 1) % Len(SpecialValues)) + 1]

(* `base` with the triple of keypoint k replaced by three different        *)
(* special values.                                                         *)
TensorWith(base, k, j) ==
    [i \in 1..Len(base) |->
        IF (i - 1) \div 3 = k THEN SpecialAt(j + ((i - 1) % 3)) ELSE base[i]]

(* The standing fixture with the confidences of the seven key joints       *)
(* taken from `assign` and those of the ten other keypoints set to         *)
(* `other`.                                                                *)
KeyJointIndex(n) ==
    CHOOSE j \in DOMAIN keyKeypointNames : keyKeypointNames[j] = n

IsKeyJoint(n) == \E j \in DOMAIN keyKeypointNames : keyKeypointNames[j] = n

TensorOfConfidences(assign, other) ==
    LET base == generateMockMoveNetOutput("standing") IN
    [i \in 1..Len(base) |->
        IF (i - 1) % 3 # 2 THEN base[i]
        ELSE LET n == KeypointNames[((i - 1) \div 3) + 1]
             IN  IF IsKeyJoint(n) THEN assign[KeyJointIndex(n)] ELSE other]


ExtractorTensors ==
    Tensors
    \cup { generateMockMoveNetOutput(s) : s \in Scenarios }
    \cup { TensorWith(generateMockMoveNetOutput("standing"), k, j) :
              k \in 0..16, j \in DOMAIN SpecialValues }
    \cup { TensorOfConfidences(
              [j \in DOMAIN keyKeypointNames |-> IF j \in high THEN c ELSE d],
              other) :
              high \in SUBSET (DOMAIN keyKeypointNames),
              c \in {100, 950}, d \in {0, 99}, other \in {0, Scale} }
    \cup { SubSeq(WildTensor, 1, n) : n \in {3, 48, 50} }
    \cup { WildTensor \o SubSeq(WildTensor, 1, n) : n \in {1, 3, 51} }

ExtractorConfigs ==
    { [DEFAULT_KEYPOINT_CONFIG EXCEPT !.confidenceThreshold = t] :
        t \in {100, 300, 500, 700} }

ExtractorIdle(modelOutput, config) ==
    [called |-> FALSE, version |-> "extractPoseKeypoints",
     modelOutput |-> modelOutput, config |-> config,
     outcome |-> Throw("not called")]

CallExtractPoseKeypoints ==
    \E dt \in Durations :
        /\ ~pipe.called
        /\ pipe' = [pipe EXCEPT
                      !.called = TRUE,
                      !.outcome = extractPoseKeypoints(pipe.modelOutput,
                                                       pipe.config, dt)]
        /\ UNCHANGED <<pose, prep, gov>>

ExtractorInit ==
    /\ pipe \in { ExtractorIdle(t, c) :
                    t \in ExtractorTensors, c \in ExtractorConfigs }
    /\ pose = FreshPose(DefaultPoseConfig)
    /\ prep = FreshPrep
    /\ gov = FreshGov(DefaultGovConfig)

ExtractorNext == CallExtractPoseKeypoints

ExtractorSpec == ExtractorInit /\ [][ExtractorNext]_vars

(* The triple <<y, x, confidence>> of keypoint i (0-based) of a tensor.    *)
TripleOf(tensor, i) == SubSeq(tensor, 3 * i + 1, 3 * i + 3)

(* C11: extractPoseKeypoints called with a tensor whose length is not 51   *)
(* fails with an error and returns no result; with a tensor of length 51   *)
(* it returns exactly the 17 named keypoints, the keypoint of tensor index *)
(* i being the i-th name of the fixed list.                                *)
C11_ShapeChecked ==
    pipe.called =>
        IF Len(pipe.modelOutput) # 51
        THEN /\ pipe.outcome.threw
             /\ pipe.outcome.message # ""
             /\ "value" \notin DOMAIN pipe.outcome
        ELSE /\ ~pipe.outcome.threw
             /\ DOMAIN pipe.outcome.value.keypoints = KeypointNameSet
             /\ Cardinality(DOMAIN pipe.outcome.value.keypoints) = 17
             /\ \A i \in 0..16 :
                    pipe.outcome.value.keypoints[KeypointNames[i + 1]] =
                        extractKeypoint(TripleOf(pipe.modelOutput, i), 0)

C11_Witness ==
    /\ pipe.called
    /\ Len(pipe.modelOutput) = 50
    /\ pipe.outcome.threw

C11_WitnessFull ==
    /\ pipe.called
    /\ Len(pipe.modelOutput) = 51
    /\ ~pipe.outcome.threw
    /\ pipe.outcome.value.keypoints["rightAnkle"].confidence = 850

(* What the claim expects of a tensor element: NaN becomes 0, anything     *)
(* else is clamped to [0, 1].                                              *)
ExpectedClamp(v) ==
    IF v = NaN THEN 0
    ELSE IF v = NegInf \/ v < 0 THEN 0
    ELSE IF v = PosInf \/ v > Scale THEN Scale
    ELSE v

InUnitRange(v) == v # NaN /\ v >= 0 /\ v <= Scale

(* C13: for every 51-element tensor, negative, above 1, infinite and NaN   *)
(* elements included, each of the 17 keypoints has x, y and confidence in  *)
(* [0, 1] (NaN to 0, the rest clamped), y read from element 3i, x from     *)
(* 3i+1 and confidence from 3i+2.                                          *)
C13_ClampedAndOrdered ==
    (pipe.called /\ Len(pipe.modelOutput) = 51) =>
        /\ ~pipe.outcome.threw
        /\ \A i \in 0..16 :
              LET kp == pipe.outcome.value.keypoints[KeypointNames[i + 1]]
              IN  /\ InUnitRange(kp.x)
                  /\ InUnitRange(kp.y)
                  /\ InUnitRange(kp.confidence)
                  /\ kp.y = ExpectedClamp(pipe.modelOutput[3 * i + 1])
                  /\ kp.x = ExpectedClamp(pipe.modelOutput[3 * i + 2])
                  /\ kp.confidence = ExpectedClamp(pipe.modelOutput[3 * i + 3])

(* A keypoint was extracted from a NaN, an infinite and an out-of-range    *)
(* element.                                                                *)
C13_Witness ==
    /\ pipe.called
    /\ Len(pipe.modelOutput) = 51
    /\ ~pipe.outcome.threw
    /\ \E i \in 0..16 :
          /\ pipe.modelOutput[3 * i + 1] = PosInf
          /\ pipe.modelOutput[3 * i + 2] = NaN
          /\ pipe.modelOutput[3 * i + 3] = NegInf
          /\ pipe.outcome.value.keypoints[KeypointNames[i + 1]] =
                [x |-> 0, y |-> Scale, confidence |-> 0]

(* The seven key joints as tensor indices (nose, shoulders, hips, knees)   *)
(* and the confidence element of keypoint i.                               *)
KeyJointSlots == <<0, 5, 6, 11, 12, 13, 14>>

ConfidenceElement(tensor, i) == ExpectedClamp(tensor[3 * i + 3])

(* A confidence is strictly above 0.1: the float32 nearest to 0.1 is,      *)
(* anything at or below 0.099 is not.                                      *)
AboveTenth(c) == c > 100 \/ (c = 100 /\ Float32Direction(100) = 1)

IncludedConfidences(tensor) ==
    SelectSeq([j \in DOMAIN KeyJointSlots |->
                  ConfidenceElement(tensor, KeyJointSlots[j])],
              AboveTenth)

(* C14: overallConfidence is the mean confidence of those of the seven key *)
(* joints whose confidence is strictly greater than 0.1, and 0 if there is *)
(* none; it is a function of those seven confidences alone.                *)
C14_MeanOfKeyJoints ==
    (pipe.called /\ Len(pipe.modelOutput) = 51) =>
        LET included == IncludedConfidences(pipe.modelOutput)
            overall == pipe.outcome.value.overallConfidence
        IN  IF included = <<>>
            THEN RatEq(overall, 0)
            ELSE overall.num * Len(included) = SumSeq(included) * overall.den

(* Some key joints are above the floor and some are not, while every other *)
(* keypoint has confidence 1.                                              *)
C14_Witness ==
    /\ pipe.called
    /\ Len(pipe.modelOutput) = 51
    /\ Len(IncludedConfidences(pipe.modelOutput)) = 3
    /\ ConfidenceElement(pipe.modelOutput, 0) = 100
    /\ ConfidenceElement(pipe.modelOutput, 5) = 99
    /\ ConfidenceElement(pipe.modelOutput, 1) = Scale
    /\ RatEq(pipe.outcome.value.overallConfidence, 100)

(* No key joint is above the floor: the result is 0.                       *)
C14_WitnessNone ==
    /\ pipe.called
    /\ Len(pipe.modelOutput) = 51
    /\ IncludedConfidences(pipe.modelOutput) = <<>>
    /\ ConfidenceElement(pipe.modelOutput, 1) = Scale
    /\ RatEq(pipe.outcome.value.overallConfidence, 0)

(* The clamped confidence c, a float32, is at least the double t.          *)
ReachesThreshold(c, t) == c > t \/ (c = t /\ Float32Direction(c) # 0 - 1)

(* C15: validKeypoints is the number of the 17 keypoints whose clamped     *)
(* confidence is at least the configured threshold (boundary included),    *)
(* an integer in 0..17; for the low_confidence fixture at threshold 0.3 it *)
(* is the number of confidences of that fixture that are at least 0.3.     *)
C15_CountAtThreshold ==
    (pipe.called /\ Len(pipe.modelOutput) = 51) =>
        LET valid == pipe.outcome.value.validKeypoints
            threshold == pipe.config.confidenceThreshold
        IN  /\ valid \in 0..17
            /\ valid = Cardinality(
                  { i \in 0..16 :
                      ReachesThreshold(ConfidenceElement(pipe.modelOutput, i),
                                       threshold) })
            /\ (pipe.modelOutput = Flatten(LowConfidenceFixture)
                   /\ threshold = 300) =>
                  valid = Cardinality({ i \in DOMAIN LowConfidenceFixture :
                                          LowConfidenceFixture[i][3] >= 300 })

(* The low_confidence fixture at threshold 0.3: twelve confidences count,  *)
(* the 0.30 of the right wrist among them.                                 *)
C15_Witness ==
    /\ pipe.called
    /\ pipe.modelOutput = Flatten(LowConfidenceFixture)
    /\ pipe.config.confidenceThreshold = 300
    /\ pipe.outcome.value.keypoints["rightWrist"].confidence = 300
    /\ pipe.outcome.value.validKeypoints = 12

----------------------------------------------------------------------------
(* Calls of the two crop calculators on arbitrary frame dimensions.        *)

CropDimensions == (1..6) \cup {192, 480, 640, 1080, 1920, 40000}

CropConfigs ==
    { [MOVENET_PREPROCESSING_CONFIG EXCEPT !.maintainAspectRatio = keep] :
        keep \in BOOLEAN }

NotCalled == Throw("not called")

CallCalculateDimensions ==
    /\ pipe.standard = NotCalled
    /\ pipe' = [pipe EXCEPT
                  !.standard = Return(calculateDimensions(
                                   pipe.frameWidth, pipe.frameHeight,
                                   pipe.config))]
    /\ UNCHANGED <<pose, prep, gov>>

CallCalculateDimensionsOptimized ==
    /\ pipe.optimized = NotCalled
    /\ pipe' = [pipe EXCEPT
                  !.optimized = Return(calculateDimensionsOptimized(
                                    pipe.frameWidth, pipe.frameHeight,
                                    pipe.config))]
    /\ UNCHANGED <<pose, prep, gov>>

CropInit ==
    /\ pipe \in { [version |-> "calculateDimensions",
                    frameWidth |-> w, frameHeight |-> h, config |-> c,
                    standard |-> NotCalled, optimized |-> NotCalled] :
                    w \in CropDimensions, h \in CropDimensions,
                    c \in CropConfigs }
    /\ pose = FreshPose(DefaultPoseConfig)
    /\ prep = FreshPrep
    /\ gov = FreshGov(DefaultGovConfig)

CropNext == CallCalculateDimensions \/ CallCalculateDimensionsOptimized

CropSpec == CropInit /\ [][CropNext]_vars

(* The crop the claim expects for a W x H frame, <<>> for no crop.         *)
ExpectedCrop(W, H) ==
    IF W > H
    THEN << [x |-> (W - H) \div 2, y |-> 0, width |-> H, height |-> H] >>
    ELSE IF W < H
    THEN << [x |-> 0, y |-> (H - W) \div 2, width |-> W, height |-> W] >>
    ELSE <<>>

SquareInsideFrame(crop, W, H) ==
    /\ crop.width = Min(W, H)
    /\ crop.height = Min(W, H)
    /\ crop.x >= 0
    /\ crop.y >= 0
    /\ crop.x + crop.width <= W
    /\ crop.y + crop.height <= H

(* C18: with maintainAspectRatio, for all positive W and H the crop is     *)
(* width=H, height=H, y=0, x=floor((W-H)/2) if W>H; width=W, height=W,     *)
(* x=0, y=floor((H-W)/2) if W<H; absent if W=H; it is a square of side     *)
(* min(W,H) inside the frame; and the standard and the optimised           *)
(* calculator return the same crop.                                        *)
C18_CropCalculator ==
    (/\ pipe.config.maintainAspectRatio
     /\ pipe.standard # NotCalled
     /\ pipe.optimized # NotCalled) =>
        LET crop == pipe.standard.value.cropConfig
        IN  /\ crop = ExpectedCrop(pipe.frameWidth, pipe.frameHeight)
            /\ crop # <<>> =>
                  SquareInsideFrame(crop[1], pipe.frameWidth, pipe.frameHeight)
            /\ pipe.optimized.value.cropConfig = crop

(* The part of C18 that is about the standard calculator alone.            *)
StandardCropAsExpected ==
    (pipe.config.maintainAspectRatio /\ pipe.standard # NotCalled) =>
        LET crop == pipe.standard.value.cropConfig
        IN  /\ crop = ExpectedCrop(pipe.frameWidth, pipe.frameHeight)
            /\ crop # <<>> =>
                  SquareInsideFrame(crop[1], pipe.frameWidth, pipe.frameHeight)

(* The optimised calculator agrees on frames that are wider than tall and  *)
(* narrower than 32768 pixels.                                             *)
OptimizedAgreesOnLandscape ==
    (/\ pipe.config.maintainAspectRatio
     /\ pipe.standard # NotCalled
     /\ pipe.optimized # NotCalled
     /\ pipe.frameWidth >= pipe.frameHeight
     /\ pipe.frameWidth < 32768) =>
        pipe.optimized.value.cropConfig = pipe.standard.value.cropConfig

----------------------------------------------------------------------------
(* Calls of resizeRGBData on arbitrary sizes, and of the two software      *)
(* preprocessing paths on frames of arbitrary sizes, observed at the level *)
(* of the pixels read.                                                     *)

SrcWidths == {1, 2, 3, 5, 30, 45}
SrcHeights == {1, 2, 3}
DstWidths == {1, 2, 3, 4, 22, 33}
DstHeights == {1, 2, 4}

SmallFrameSides == {4, 6, 8, 12}
SmallInputSizes == {2, 4}

ResizeCalls ==
    { [version |-> "resizeRGBData", called |-> FALSE,
       srcWidth |-> sw, srcHeight |-> sh, dstWidth |-> dw, dstHeight |-> dh,
       reads |-> <<>>] :
        sw \in SrcWidths, sh \in SrcHeights,
        dw \in DstWidths, dh \in DstHeights }

PreprocessCalls ==
    { [version |-> v, called |-> FALSE,
       frameWidth |-> w, frameHeight |-> h,
       config |-> [MOVENET_PREPROCESSING_CONFIG EXCEPT
                      !.inputSize = n, !.maintainAspectRatio = keep],
       used |-> {}] :
        v \in {"processWithFallback", "preprocessFrameOptimized"},
        w \in SmallFrameSides, h \in SmallFrameSides,
        n \in SmallInputSizes, keep \in BOOLEAN }
    \cup
    { [version |-> v, called |-> FALSE,
       frameWidth |-> d[1], frameHeight |-> d[2],
       config |-> MOVENET_PREPROCESSING_CONFIG,
       used |-> {}] :
        v \in {"processWithFallback", "preprocessFrameOptimized"},
        d \in {<<640, 480>>, <<480, 640>>} }

CallResizeRGBData ==
    /\ pipe.version = "resizeRGBData"
    /\ ~pipe.called
    /\ pipe' = [pipe EXCEPT
                  !.called = TRUE,
                  !.reads = resizeRGBDataReads(pipe.srcWidth, pipe.srcHeight,
                                               pipe.dstWidth, pipe.dstHeight)]
    /\ UNCHANGED <<pose, prep, gov>>

CallProcessWithFallback ==
    /\ pipe.version = "processWithFallback"
    /\ ~pipe.called
    /\ pipe' = [pipe EXCEPT
                  !.called = TRUE,
                  !.used = SourcePixelsUsed(pipe.frameWidth, pipe.frameHeight,
                                            pipe.config, FALSE)]
    /\ UNCHANGED <<pose, prep, gov>>

CallPreprocessFrameOptimized ==
    /\ pipe.version = "preprocessFrameOptimized"
    /\ ~pipe.called
    /\ pipe' = [pipe EXCEPT
                  !.called = TRUE,
                  !.used = SourcePixelsUsed(pipe.frameWidth, pipe.frameHeight,
                                            pipe.config, TRUE)]
    /\ UNCHANGED <<pose, prep, gov>>

ResizeInit ==
    /\ pipe \in ResizeCalls \cup PreprocessCalls
    /\ pose = FreshPose(DefaultPoseConfig)
    /\ prep = FreshPrep
    /\ gov = FreshGov(DefaultGovConfig)

ResizeNext ==
    \/ CallResizeRGBData
    \/ CallProcessWithFallback
    \/ CallPreprocessFrameOptimized

ResizeSpec == ResizeInit /\ [][ResizeNext]_vars

(* A software preprocessing path ran on a frame that is not square, with   *)
(* maintainAspectRatio.                                                    *)
CroppingCall ==
    /\ pipe.version \in {"processWithFallback", "preprocessFrameOptimized"}
    /\ pipe.called
    /\ pipe.config.maintainAspectRatio
    /\ pipe.frameWidth # pipe.frameHeight

InsideCrop(pixel, crop) ==
    /\ pixel[1] >= crop.x
    /\ pixel[1] < crop.x + crop.width
    /\ pixel[2] >= crop.y
    /\ pixel[2] < crop.y + crop.height

(* C17: when maintainAspectRatio is true and the frame is not square,      *)
(* every source pixel sampled by the software preprocessing path lies      *)
(* inside the centred square crop region computed by the crop calculator.  *)
C17_SamplesInsideCrop ==
    CroppingCall =>
        LET crop == calculateDimensions(pipe.frameWidth, pipe.frameHeight,
                                        pipe.config).cropConfig[1]
        IN  \A pixel \in pipe.used : InsideCrop(pixel, crop)

(* What the paths do instead: the samples span the whole frame, from its   *)
(* first column and row to beyond the far edge of the crop.                *)
SamplesSpanFrame ==
    CroppingCall =>
        /\ <<0, 0>> \in pipe.used
        /\ \A pixel \in pipe.used :
              /\ pixel[1] \in 0..(pipe.frameWidth - 1)
              /\ pixel[2] \in 0..(pipe.frameHeight - 1)

(* The index the claim gives for a destination coordinate.                 *)
ExactSrc(dst, srcSize, dstSize) ==
    Min((dst * srcSize) \div dstSize, srcSize - 1)

(* The output has dstW*dstH*3 elements and every read is inside the        *)
(* srcW*srcH*3 source buffer.                                              *)
ResizeShapeAndBounds ==
    (pipe.version = "resizeRGBData" /\ pipe.called) =>
        /\ Len(pipe.reads) = pipe.dstWidth * pipe.dstHeight * 3
        /\ \A i \in DOMAIN pipe.reads :
              pipe.reads[i] \in 0..(pipe.srcWidth * pipe.srcHeight * 3 - 1)

(* C19: for all positive srcW, srcH, dstW, dstH the resize output has      *)
(* length dstW*dstH*3 and every destination pixel (dstX, dstY) copies the  *)
(* source pixel at (min(floor(dstX*srcW/dstW), srcW-1),                    *)
(* min(floor(dstY*srcH/dstH), srcH-1)), so that no read falls outside the  *)
(* source buffer.                                                          *)
C19_ResizeSamplesExactFloor ==
    (pipe.version = "resizeRGBData" /\ pipe.called) =>
        /\ ResizeShapeAndBounds
        /\ \A dstX \in 0..(pipe.dstWidth - 1), dstY \in 0..(pipe.dstHeight - 1),
                c \in 0..2 :
              pipe.reads[(dstY * pipe.dstWidth + dstX) * 3 + c + 1] =
                  (ExactSrc(dstY, pipe.srcHeight, pipe.dstHeight) * pipe.srcWidth
                     + ExactSrc(dstX, pipe.srcWidth, pipe.dstWidth)) * 3 + c

----------------------------------------------------------------------------
(* Calls of the two converters on flat-colour planar YUV 4:2:0 buffers.    *)

LumaValues == {0, 16, 33, 128, 235, 255}
ChromaValues == {0, 1, 3, 16, 128, 240, 253, 255}
EvenSizes == {<<2, 2>>, <<4, 2>>, <<2, 4>>}

RECURSIVE Repeat(_, _)
Repeat(v, n) == IF n = 0 THEN <<>> ELSE <<v>> \o Repeat(v, n - 1)

(* Y plane, then U plane, then V plane.                                    *)
FlatBuffer(Y, U, V, width, height) ==
    Repeat(Y, width * height)
        \o Repeat(U, (width * height) \div 4)
        \o Repeat(V, (width * height) \div 4)

ConverterCalls ==
    { [version |-> v, called |-> FALSE,
       Y |-> y, U |-> u, V |-> w, width |-> d[1], height |-> d[2],
       yuvData |-> FlatBuffer(y, u, w, d[1], d[2]),
       outcome |-> NotCalled] :
        v \in {"convertYUVtoRGB", "convertYUVtoRGBOptimized"},
        y \in LumaValues, u \in ChromaValues, w \in ChromaValues,
        d \in EvenSizes }

CallConvertYUVtoRGB ==
    \E up \in BOOLEAN :
        /\ pipe.version = "convertYUVtoRGB"
        /\ ~pipe.called
        /\ pipe' = [pipe EXCEPT
                      !.called = TRUE,
                      !.outcome = convertYUVtoRGBBytes(pipe.yuvData, pipe.width,
                                                       pipe.height, up)]
        /\ UNCHANGED <<pose, prep, gov>>

CallConvertYUVtoRGBOptimized ==
    \E up \in BOOLEAN :
        /\ pipe.version = "convertYUVtoRGBOptimized"
        /\ ~pipe.called
        /\ pipe' = [pipe EXCEPT
                      !.called = TRUE,
                      !.outcome = convertYUVtoRGBOptimizedBytes(
                                      pipe.yuvData, pipe.width, pipe.height, up)]
        /\ UNCHANGED <<pose, prep, gov>>

ConverterInit ==
    /\ pipe \in ConverterCalls
    /\ pose = FreshPose(DefaultPoseConfig)
    /\ prep = FreshPrep
    /\ gov = FreshGov(DefaultGovConfig)

ConverterNext == CallConvertYUVtoRGB \/ CallConvertYUVtoRGBOptimized

ConverterSpec == ConverterInit /\ [][ConverterNext]_vars

(* The BT.601 value of the claim, rounded and clamped to 0..255.           *)
ExpectedRGB(Y, U, V) ==
    LET byte(t) == Max(0, Min(255, (t + 500) \div 1000))
    IN  << byte(1000 * Y + 1402 * (V - 128)),
           byte(1000 * Y - 344 * (U - 128) - 714 * (V - 128)),
           byte(1000 * Y + 1772 * (U - 128)) >>

(* Every output pixel is within 2 per channel of the expected value.       *)
WithinTwoOfExpected ==
    /\ ~pipe.outcome.threw
    /\ Len(pipe.outcome.value) = pipe.width * pipe.height * 3
    /\ \A i \in DOMAIN pipe.outcome.value :
          LET expected == ExpectedRGB(pipe.Y, pipe.U, pipe.V)[((i - 1) % 3) + 1]
          IN  /\ pipe.outcome.value[i] - expected <= 2
              /\ expected - pipe.outcome.value[i] <= 2

(* C20: for every flat-colour YUV 4:2:0 buffer (Y, U and V each in 0..255) *)
(* of even positive dimensions, every output pixel equals the BT.601 value *)
(* (rounded, clamped to 0..255) within 2 per channel, for the standard and *)
(* for the optimised converter.                                            *)
C20_ConvertersWithinTolerance ==
    pipe.called => WithinTwoOfExpected

(* The standard converter alone satisfies the bound.                       *)
StandardConverterWithinTolerance ==
    (pipe.called /\ pipe.version = "convertYUVtoRGB") => WithinTwoOfExpected

(* So does the optimised converter when neither chroma byte is 0.          *)
OptimizedWithinToleranceOffZero ==
    (pipe.called /\ pipe.version = "convertYUVtoRGBOptimized"
       /\ pipe.U # 0 /\ pipe.V # 0) => WithinTwoOfExpected

----------------------------------------------------------------------------
(* The two preprocessing strategies on the same supported frame and the    *)
(* same configuration.                                                     *)

SupportedFrames ==
    { [width |-> w, height |-> h, pixelFormat |-> f,
       bytes |-> IF f = "yuv" THEN (w * h * 3) \div 2 ELSE w * h * 3] :
        w \in {192, 480, 640}, h \in {192, 480, 640}, f \in {"yuv", "rgb"} }

PreprocessingConfigs ==
    { [inputSize |-> n, maintainAspectRatio |-> keep,
       outputFormat |-> format, normalizeValues |-> normalize] :
        n \in {192, 256}, keep \in BOOLEAN,
        format \in {"uint8", "float32"}, normalize \in BOOLEAN }

RunResizePluginStrategy ==
    \E dt \in Durations :
        /\ pipe.hardware = NotCalled
        /\ pipe' = [pipe EXCEPT
                      !.hardware = processWithResizePlugin(
                                       pipe.frame, pipe.plugin, pipe.config, dt)]
        /\ UNCHANGED <<pose, prep, gov>>

RunFallbackStrategy ==
    \E dt \in Durations :
        /\ pipe.software = NotCalled
        /\ pipe' = [pipe EXCEPT
                      !.software = processWithFallback(pipe.frame,
                                                       pipe.config, dt)]
        /\ UNCHANGED <<pose, prep, gov>>

StrategyInit ==
    /\ pipe \in { [version |-> "strategies", frame |-> f, config |-> c,
                    plugin |-> p,
                    hardware |-> NotCalled, software |-> NotCalled] :
                    f \in SupportedFrames, c \in PreprocessingConfigs,
                    p \in {"null", "typed", "buffer"} }
    /\ pose = FreshPose(DefaultPoseConfig)
    /\ prep = FreshPrep
    /\ gov = FreshGov(DefaultGovConfig)

StrategyNext == RunResizePluginStrategy \/ RunFallbackStrategy

StrategySpec == StrategyInit /\ [][StrategyNext]_vars

(* The shape the claim gives for a configuration.                          *)
HasClaimedShape(result, config) ==
    /\ result.width = config.inputSize
    /\ result.height = config.inputSize
    /\ result.channels = 3
    /\ result.data.length = config.inputSize * config.inputSize * 3
    /\ result.data.type =
          IF config.outputFormat = "uint8" /\ config.normalizeValues = FALSE
          THEN "uint8" ELSE "float32"

BothStrategiesRan ==
    /\ pipe.hardware # NotCalled
    /\ pipe.software # NotCalled
    /\ pipe.plugin # "null"

(* C22: for the same supported frame and the same config, the              *)
(* hardware-accelerated path and the software fallback both return         *)
(* width = height = inputSize, channels = 3, a data buffer of              *)
(* inputSize*inputSize*3 elements, and the same element type (uint8 when   *)
(* outputFormat is uint8 and normalizeValues is false, float otherwise).   *)
C22_SameShape ==
    BothStrategiesRan =>
        /\ ~pipe.hardware.threw
        /\ ~pipe.software.threw
        /\ HasClaimedShape(pipe.hardware.value, pipe.config)
        /\ HasClaimedShape(pipe.software.value, pipe.config)
        /\ pipe.hardware.value.data = pipe.software.value.data

(* Both ran on a non-square YUV frame with uint8 output normalized to      *)
(* float, the plugin handing over an ArrayBuffer.                          *)
C22_Witness ==
    /\ BothStrategiesRan
    /\ pipe.frame.width = 640
    /\ pipe.frame.height = 480
    /\ pipe.frame.pixelFormat = "yuv"
    /\ pipe.plugin = "buffer"
    /\ pipe.config.outputFormat = "uint8"
    /\ pipe.config.normalizeValues
    /\ pipe.software.value.data.type = "float32"
    /\ pipe.hardware.value.data.length = pipe.config.inputSize * pipe.config.inputSize * 3

----------------------------------------------------------------------------
(* FrameProcessorErrorRecovery and useFrameProcessorErrorRecovery.         *)

ErrorTypes ==
    {"MEMORY_PRESSURE", "HIGH_CPU_LOAD", "BUFFER_OVERFLOW",
     "PROCESSING_TIMEOUT", "CAMERA_DISCONNECTED"}

RecoveryStrategies ==
    {"REDUCE_FPS", "SKIP_FRAMES", "FORCE_CLEANUP", "RESTART_PROCESSOR",
     "EMERGENCY_STOP"}

(* The hook's default configuration, with the caller's maxRetries.         *)
ErrorRecoveryConfig(maxRetries) ==
    [maxRetries |-> maxRetries, retryDelay |-> 1000, memoryThreshold |-> 50,
     cpuThreshold |-> 80, enableAutoRecovery |-> TRUE]

(* The state after construction: no events, an empty Map of counters (a    *)
(* missing key reads as 0).                                                *)
NewErrorRecovery(config) ==
    [config |-> config, errorHistory |-> <<>>,
     retryCounters |-> [t \in ErrorTypes |-> 0],
     lastRecoveryTime |-> 0, recoveryInProgress |-> FALSE]

(* A context field that is absent or 0 is falsy; 0 stands for both.        *)
determineRecoveryStrategy(self, errorType, context) ==
    IF errorType = "MEMORY_PRESSURE"
    THEN IF context.memoryUsage # 0
            /\ 2 * context.memoryUsage > 3 * self.config.memoryThreshold
         THEN "EMERGENCY_STOP"
         ELSE IF context.bufferPoolSize # 0 /\ context.bufferPoolSize > 10
              THEN "FORCE_CLEANUP" ELSE "SKIP_FRAMES"
    ELSE IF errorType = "HIGH_CPU_LOAD"
    THEN IF context.frameRate # 0 /\ context.frameRate > 20
         THEN "REDUCE_FPS" ELSE "SKIP_FRAMES"
    ELSE IF errorType = "BUFFER_OVERFLOW" THEN "FORCE_CLEANUP"
    ELSE IF errorType = "PROCESSING_TIMEOUT" THEN "SKIP_FRAMES"
    ELSE IF errorType = "CAMERA_DISCONNECTED" THEN "RESTART_PROCESSOR"
    ELSE "SKIP_FRAMES"

historyLimit == 50

(* The retry-limit test with the limit left out.                           *)
MaxRetriesReachedNever(self, retryCount) == FALSE

MaxRetriesReached(self, retryCount) == retryCount >= self.config.maxRetries

(* errorHistory.push(event) followed by the shift of the oldest event.     *)
PushErrorEvent(errorHistory, errorEvent) ==
    LET pushed == Append(errorHistory, errorEvent)
    IN  IF Len(pushed) > historyLimit THEN Tail(pushed) ELSE pushed

(* handleError: the manager afterwards and the value returned.             *)
handleError(self, errorType, details, context, now) ==
    LET retryCount == self.retryCounters[errorType] IN
    IF MaxRetriesReached(self, retryCount)
    THEN [self |-> self, value |-> "EMERGENCY_STOP"]
    ELSE
    LET strategy == determineRecoveryStrategy(self, errorType, context)
        errorEvent == [type |-> errorType, timestamp |-> now,
                       details |-> details, recoveryStrategy |-> strategy,
                       retryCount |-> retryCount]
    IN  [self |-> [self EXCEPT
                     !.errorHistory = PushErrorEvent(@, errorEvent),
                     !.retryCounters[errorType] = retryCount + 1],
         value |-> strategy]

resetRetryCounters(self) ==
    [self EXCEPT !.retryCounters = [t \in ErrorTypes |-> 0]]

(* The hook's handleError: every strategy is a non-empty string, so the    *)
(* shared errorCount grows with every call.                                *)
useHandleError(hook, errorType, details, context, now) ==
    LET handled == handleError(hook.errorRecovery, errorType, details,
                               context, now)
    IN  [hook |-> [hook EXCEPT !.errorRecovery = handled.self,
                               !.errorCount = @ + 1],
         value |-> handled.value]

(* The hook after mounting.                                                *)
MountErrorRecovery(config) ==
    [errorRecovery |-> NewErrorRecovery(config),
     isRecovering |-> FALSE, errorCount |-> 0]

----------------------------------------------------------------------------
(* Errors handled one after another, with resets in between.               *)

MaxHandled == 4

NoContext == [memoryUsage |-> 0, frameRate |-> 0, bufferPoolSize |-> 0]

ErrorContexts ==
    { NoContext,
      [memoryUsage |-> 60, frameRate |-> 15, bufferPoolSize |-> 12],
      [memoryUsage |-> 90, frameRate |-> 30, bufferPoolSize |-> 12] }

(* The hook after k timeouts, each followed by a reset of the counters:    *)
(* the history keeps the events, the counters and errorCount are back at 0.*)
HookAfterTimeouts(config, k) ==
    LET fresh == MountErrorRecovery(config)
        earlier == [type |-> "PROCESSING_TIMEOUT", timestamp |-> 0,
                    details |-> "earlier",
                    recoveryStrategy |->
                        determineRecoveryStrategy(fresh.errorRecovery,
                            "PROCESSING_TIMEOUT", NoContext),
                    retryCount |-> 0]
    IN  [fresh EXCEPT !.errorRecovery.errorHistory = [i \in 1..k |-> earlier]]

EscalationHandleError ==
    \E errorType \in ErrorTypes, context \in ErrorContexts :
        /\ pipe.handled < MaxHandled
        /\ LET call == useHandleError(pipe.hook, errorType, "details",
                                       context, pipe.now + 1)
           IN  pipe' = [pipe EXCEPT !.hook = call.hook, !.now = @ + 1,
                                    !.handled = @ + 1,
                                    !.last = [op |-> "handleError",
                                              errorType |-> errorType,
                                              value |-> call.value]]
        /\ UNCHANGED <<pose, prep, gov>>

EscalationReset ==
    /\ pipe.last.op = "handleError"
    /\ pipe' = [pipe EXCEPT
                  !.hook.errorRecovery = resetRetryCounters(@),
                  !.last = [op |-> "resetRetryCounters",
                            errorType |-> "", value |-> ""]]
    /\ UNCHANGED <<pose, prep, gov>>

EscalationInit ==
    /\ pipe \in UNION {
          { [version |-> "escalation",
             hook |-> HookAfterTimeouts(ErrorRecoveryConfig(n), k),
             now |-> 0, handled |-> 0,
             last |-> [op |-> "mount", errorType |-> "", value |-> ""]] :
             k \in IF n = 0 THEN {0} ELSE {0, 49, 50} } : n \in {0, 1, 3} }
    /\ pose = FreshPose(DefaultPoseConfig)
    /\ prep = FreshPrep
    /\ gov = FreshGov(DefaultGovConfig)

EscalationNext == EscalationHandleError \/ EscalationReset

EscalationSpec == EscalationInit /\ [][EscalationNext]_vars

ManagerOf(p) == p.hook.errorRecovery

HandledStep == pipe'.last.op = "handleError" /\ pipe'.handled = pipe.handled + 1

(* The last events of a history, oldest first.                             *)
NewestEvent(history) == history[Len(history)]

(* C23: handleError returns EMERGENCY_STOP whenever the type's retry count *)
(* has reached maxRetries and then changes neither the counters nor the    *)
(* history; otherwise it adds exactly 1 to that type's counter only and    *)
(* appends one event; no counter exceeds maxRetries and the history never  *)
(* holds more than 50 events.                                              *)
C23_RetryEscalation ==
    [][ /\ HandledStep =>
            LET before == ManagerOf(pipe)
                after == ManagerOf(pipe')
                type == pipe'.last.errorType
            IN  IF before.retryCounters[type] >= before.config.maxRetries
                THEN /\ pipe'.last.value = "EMERGENCY_STOP"
                     /\ after.retryCounters = before.retryCounters
                     /\ after.errorHistory = before.errorHistory
                ELSE /\ after.retryCounters[type] = before.retryCounters[type] + 1
                     /\ \A other \in ErrorTypes \ {type} :
                            after.retryCounters[other] = before.retryCounters[other]
                     /\ Len(after.errorHistory) >= 1
                     /\ NewestEvent(after.errorHistory).type = type
                     /\ NewestEvent(after.errorHistory).timestamp = pipe'.now
                     /\ NewestEvent(after.errorHistory).recoveryStrategy = pipe'.last.value
                     /\ IF Len(before.errorHistory) < 50
                        THEN after.errorHistory =
                               Append(before.errorHistory, NewestEvent(after.errorHistory))
                        ELSE after.errorHistory =
                               Append(Tail(before.errorHistory), NewestEvent(after.errorHistory))
        /\ \A t \in ErrorTypes :
              ManagerOf(pipe').retryCounters[t] <= ManagerOf(pipe').config.maxRetries
        /\ Len(ManagerOf(pipe').errorHistory) <= 50 ]_vars

(* An error of a type whose counter had reached the limit of 3 was turned  *)
(* into an emergency stop while the history was full.                      *)
C23_Witness ==
    /\ pipe.version = "escalation"
    /\ pipe.last.op = "handleError"
    /\ pipe.last.value = "EMERGENCY_STOP"
    /\ pipe.last.errorType = "CAMERA_DISCONNECTED"
    /\ ManagerOf(pipe).config.maxRetries = 3
    /\ ManagerOf(pipe).retryCounters["CAMERA_DISCONNECTED"] = 3
    /\ Len(ManagerOf(pipe).errorHistory) = 50
    /\ NewestEvent(ManagerOf(pipe).errorHistory).type = "CAMERA_DISCONNECTED"

----------------------------------------------------------------------------
(* executeRecovery: an async function, run in two segments separated by    *)
(* the await of the retry delay; and the hook's wrapper around it.         *)

stabilityDelay == 5000

(* The in-progress test with the flag ignored.                             *)
RecoveryInProgressIgnored(self) == FALSE

RecoveryInProgress(self) == self.recoveryInProgress

(* Math.floor(currentFps * 0.7) in double precision, for frame rates up to *)
(* 120: the product is below the exact one only at 90 (62.99999999999999). *)
FloorOfSeventyPercent(currentFps) ==
    IF currentFps = 90 THEN 62 ELSE (currentFps * 7) \div 10

(* The callback a strategy invokes (context.onX?.()), if any.              *)
RecoveryCallback(strategy, context) ==
    IF strategy = "REDUCE_FPS"
    THEN LET currentFps == IF context.currentFps = 0 THEN 30
                           ELSE context.currentFps
         IN  <<[callback |-> "onReduceFps",
                argument |-> Max(10, FloorOfSeventyPercent(currentFps))]>>
    ELSE IF strategy = "FORCE_CLEANUP"
    THEN <<[callback |-> "onForceCleanup", argument |-> 0]>>
    ELSE IF strategy = "RESTART_PROCESSOR"
    THEN <<[callback |-> "onRestartProcessor", argument |-> 0]>>
    ELSE IF strategy = "EMERGENCY_STOP"
    THEN <<[callback |-> "onEmergencyStop", argument |-> 0]>>
    ELSE <<>>

(* The first segment: up to the early return, to the catch block (the      *)
(* callback threw) or to the await.  settled tells whether the promise is  *)
(* settled, and then value is what it resolves to.                         *)
executeRecoveryStart(self, strategy, context, now) ==
    IF RecoveryInProgress(self)
    THEN [self |-> self, invoked |-> <<>>, settled |-> TRUE, value |-> FALSE]
    ELSE
    LET started == [self EXCEPT !.recoveryInProgress = TRUE,
                                !.lastRecoveryTime = now]
        invoked == RecoveryCallback(strategy, context)
    IN  IF invoked # <<>> /\ context.callbackThrows
        THEN [self |-> [started EXCEPT !.recoveryInProgress = FALSE],
              invoked |-> invoked, settled |-> TRUE, value |-> FALSE]
        ELSE [self |-> started, invoked |-> invoked, settled |-> FALSE,
              value |-> FALSE]

(* The second segment, when the timer of the retry delay fires: return     *)
(* true through the finally block.                                         *)
executeRecoveryResume(self) ==
    [self |-> [self EXCEPT !.recoveryInProgress = FALSE], value |-> TRUE]

----------------------------------------------------------------------------
(* The hook in use: errors are handled, recoveries are started, timers     *)
(* fire.  Time is in milliseconds and is observed every 2.5 seconds, a     *)
(* timer firing at the first observation at or after its due time.  last   *)
(* describes the latest call or timer callback.                            *)

MaxClock == 3
MaxErrors == 3
MaxCalls == 3

Horizon == MaxClock * 2500

RecoveryContexts ==
    { [currentFps |-> 30, callbackThrows |-> throws] : throws \in BOOLEAN }

(* The calls of executeRecovery that have not returned yet: waiting for    *)
(* the retry delay, or settled with the hook's continuation pending.       *)
SettledCalls(p) == { c \in p.calls : c.pc = "settled" }
WaitingCalls(p) == { c \in p.calls : c.pc = "waiting" }

(* A timer callback runs only when no continuation of a settled promise is *)
(* pending.                                                                *)
NoMicrotask == SettledCalls(pipe) = {}

RecoveryHandleError ==
    \E errorType \in {"CAMERA_DISCONNECTED"} :
        /\ pipe.handled < MaxErrors
        /\ LET call == useHandleError(pipe.hook, errorType, "details",
                                       NoContext, pipe.now)
           IN  pipe' = [pipe EXCEPT !.hook = call.hook, !.handled = @ + 1,
                                    !.last = [op |-> "handleError",
                                              strategy |-> call.value]]
        /\ UNCHANGED <<pose, prep, gov>>

(* The hook's executeRecovery up to its await.                             *)
CallExecuteRecovery ==
    \E strategy \in {"SKIP_FRAMES", "REDUCE_FPS"},
       context \in RecoveryContexts :
        /\ pipe.started < MaxCalls
        /\ pipe.now + pipe.hook.errorRecovery.config.retryDelay <= Horizon
        /\ LET start == executeRecoveryStart(pipe.hook.errorRecovery,
                                              strategy, context, pipe.now)
               call == [id |-> pipe.started + 1,
                        pc |-> IF start.settled THEN "settled" ELSE "waiting",
                        value |-> start.value,
                        due |-> pipe.now + pipe.hook.errorRecovery.config.retryDelay]
           IN  pipe' = [pipe EXCEPT
                          !.hook.isRecovering = TRUE,
                          !.hook.errorRecovery = start.self,
                          !.started = @ + 1,
                          !.calls = @ \cup {call},
                          !.last = [op |-> "executeRecovery",
                                    success |-> start.value,
                                    settled |-> start.settled,
                                    invoked |-> start.invoked]]
        /\ UNCHANGED <<pose, prep, gov>>

(* The timer of the retry delay fires: the class method resumes.           *)
RetryDelayElapsed ==
    \E c \in WaitingCalls(pipe) :
        /\ NoMicrotask
        /\ c.due <= pipe.now
        /\ LET resumed == executeRecoveryResume(pipe.hook.errorRecovery)
           IN  pipe' = [pipe EXCEPT
                          !.hook.errorRecovery = resumed.self,
                          !.calls = (@ \ {c}) \cup
                                    {[c EXCEPT !.pc = "settled",
                                               !.value = resumed.value]},
                          !.last = [op |-> "resume"]]
        /\ UNCHANGED <<pose, prep, gov>>

(* The hook's continuation after its await: the reset is scheduled after   *)
(* a success, and isRecovering is cleared in the finally block.            *)
RecoveryReturns ==
    \E c \in SettledCalls(pipe) :
        /\ pipe' = [pipe EXCEPT
                      !.hook.isRecovering = FALSE,
                      !.calls = @ \ {c},
                      !.timers = IF c.value
                                 THEN @ \cup {pipe.now + stabilityDelay}
                                 ELSE @]
        /\ UNCHANGED <<pose, prep, gov>>

(* The timer set after a successful recovery fires.                        *)
ResetTimerFires ==
    \E due \in pipe.timers :
        /\ NoMicrotask
        /\ due <= pipe.now
        /\ pipe' = [pipe EXCEPT
                      !.hook.errorRecovery = resetRetryCounters(@),
                      !.hook.errorCount = 0,
                      !.timers = @ \ {due},
                      !.last = [op |-> "reset", due |-> due]]
        /\ UNCHANGED <<pose, prep, gov>>

(* Time passes; due timers and continuations run first.                    *)
ClockTick ==
    /\ NoMicrotask
    /\ pipe.now < Horizon
    /\ \A c \in WaitingCalls(pipe) : c.due > pipe.now
    /\ \A due \in pipe.timers : due > pipe.now
    /\ pipe' = [pipe EXCEPT !.now = @ + 2500]
    /\ UNCHANGED <<pose, prep, gov>>

RecoveryInit ==
    /\ pipe = [version |-> "recovery",
               hook |-> MountErrorRecovery(ErrorRecoveryConfig(2)),
               now |-> 0, handled |-> 0, started |-> 0, calls |-> {},
               timers |-> {}, last |-> [op |-> "mount"]]
    /\ pose = FreshPose(DefaultPoseConfig)
    /\ prep = FreshPrep
    /\ gov = FreshGov(DefaultGovConfig)

RecoveryNext ==
    \/ RecoveryHandleError
    \/ CallExecuteRecovery
    \/ RetryDelayElapsed
    \/ RecoveryReturns
    \/ ResetTimerFires
    \/ ClockTick

(* The event loop runs every due timer and every continuation, and time    *)
(* passes.                                                                 *)
RecoverySpec ==
    /\ RecoveryInit
    /\ [][RecoveryNext]_vars
    /\ WF_vars(RetryDelayElapsed)
    /\ WF_vars(RecoveryReturns)
    /\ WF_vars(ResetTimerFires)
    /\ WF_vars(ClockTick)

FlagSet == pipe.version = "recovery" /\ ManagerOf(pipe).recoveryInProgress
FlagClear == pipe.version = "recovery" /\ ~ManagerOf(pipe).recoveryInProgress

CallStep == pipe'.started = pipe.started + 1

(* C24: at most one recovery is in progress; a call made while another is  *)
(* in progress returns false, invokes no callback and leaves the flag set; *)
(* the flag is cleared by the running recovery only; a callback that       *)
(* throws ends its recovery with the flag cleared; and every recovery that *)
(* started ends with recoveryInProgress = false.                           *)
C24_SingleRecovery ==
    /\ [](Cardinality(WaitingCalls(pipe)) <= 1)
    /\ [](FlagSet <=> WaitingCalls(pipe) # {})
    /\ [][ /\ (CallStep /\ FlagSet) =>
                /\ pipe'.last.settled
                /\ ~pipe'.last.success
                /\ pipe'.last.invoked = <<>>
                /\ ManagerOf(pipe') = ManagerOf(pipe)
                /\ WaitingCalls(pipe') = WaitingCalls(pipe)
           /\ (CallStep /\ FlagClear /\ pipe'.last.settled) =>
                /\ pipe'.last.invoked # <<>>
                /\ ~pipe'.last.success
                /\ ~ManagerOf(pipe').recoveryInProgress
           /\ (FlagSet /\ ~ManagerOf(pipe').recoveryInProgress) =>
                /\ pipe'.last.op = "resume"
                /\ \E c \in WaitingCalls(pipe) :
                      /\ c.due <= pipe.now
                      /\ [c EXCEPT !.pc = "settled", !.value = TRUE]
                            \in SettledCalls(pipe') ]_vars
    /\ (FlagSet ~> FlagClear)

(* A call was refused while another recovery was waiting for its delay,    *)
(* after an earlier recovery had ended because its callback threw.         *)
C24_Witness ==
    /\ pipe.version = "recovery"
    /\ pipe.started = 3
    /\ pipe.last.op = "executeRecovery"
    /\ pipe.last.settled /\ ~pipe.last.success /\ pipe.last.invoked = <<>>
    /\ \E c \in WaitingCalls(pipe) : c.id = 2
    /\ ManagerOf(pipe).recoveryInProgress
    /\ ManagerOf(pipe).lastRecoveryTime > 0

(* A recovery ended at once because its callback threw.                    *)
C24_WitnessThrows ==
    /\ pipe.version = "recovery"
    /\ pipe.last.op = "executeRecovery"
    /\ pipe.last.settled /\ pipe.last.invoked # <<>>
    /\ ~ManagerOf(pipe).recoveryInProgress

(* An event recorded after the given time.                                 *)
HandledAfter(history, time) ==
    \E i \in 1..Len(history) : history[i].timestamp > time

(* C25: after a successful recovery the retry counters and errorCount are  *)
(* reset only if no error was handled during the 5 seconds that followed;  *)
(* an error handled inside that window keeps its retry count.              *)
C25_ResetOnlyAfterStability ==
    [][ (/\ pipe'.last.op = "reset"
         /\ HandledAfter(ManagerOf(pipe).errorHistory,
                          pipe'.last.due - stabilityDelay))
        => /\ ManagerOf(pipe').retryCounters = ManagerOf(pipe).retryCounters
           /\ pipe'.hook.errorCount = pipe.hook.errorCount ]_vars

----------------------------------------------------------------------------
(* FrameMemoryManager: the pool of frame buffers.                          *)

(* The hook's default configuration, with the caller's pool size.          *)
BufferPoolConfig(maxPoolSize) ==
    [maxPoolSize |-> maxPoolSize, maxBufferAge |-> 5000,
     cleanupInterval |-> 3000, memoryThreshold |-> 50,
     enableAutoCleanup |-> TRUE]

NewFrameMemoryManager(config, now) ==
    [bufferPool |-> <<>>, config |-> config,
     stats |-> [currentUsage |-> Rat(0, 1024 * 1024),
                peakUsage |-> Rat(0, 1024 * 1024), gcCount |-> 0,
                bufferPoolSize |-> 0, framesDropped |-> 0,
                lastCleanup |-> now]]

(* The sum of the sizes over 1024 * 1024, and the peak.                    *)
updateMemoryUsage(self) ==
    LET estimatedUsage ==
            Rat(SumSeq([i \in 1..Len(self.bufferPool) |->
                            self.bufferPool[i].size]), 1024 * 1024)
    IN  [self EXCEPT
           !.stats.currentUsage = estimatedUsage,
           !.stats.peakUsage = IF estimatedUsage.num > @.num
                               THEN estimatedUsage ELSE @]

(* The filter of forceCleanup with the age test only.                      *)
ShouldKeepYoung(self, buffer, now) ==
    now - buffer.timestamp < self.config.maxBufferAge

ShouldKeep(self, buffer, now) ==
    buffer.inUse \/ now - buffer.timestamp < self.config.maxBufferAge

forceCleanup(self, now) ==
    LET kept == SelectSeq(self.bufferPool,
                          LAMBDA buffer : ShouldKeep(self, buffer, now))
        removedCount == Len(self.bufferPool) - Len(kept)
        filtered == [self EXCEPT !.bufferPool = kept]
    IN  updateMemoryUsage(
            IF removedCount > 0
            THEN [filtered EXCEPT !.stats.bufferPoolSize = Len(kept),
                                  !.stats.lastCleanup = now]
            ELSE filtered)

(* The test of the pool search with the in-use flag left out.              *)
IsLargeEnough(buffer, size) == buffer.size >= size

IsAvailable(buffer, size) == ~buffer.inUse /\ buffer.size >= size

(* Array.prototype.find: the index of the first match, 0 when none.        *)
FindIndex(pool, Test(_)) ==
    IF \E i \in 1..Len(pool) : Test(pool[i])
    THEN CHOOSE i \in 1..Len(pool) :
            Test(pool[i]) /\ \A j \in 1..(i - 1) : ~Test(pool[j])
    ELSE 0

(* acquireBuffer: the manager afterwards and the buffer returned.  suffix  *)
(* stands for the random part of a new buffer's id.                        *)
acquireBuffer(self, size, now, suffix) ==
    LET found == FindIndex(self.bufferPool,
                           LAMBDA buffer : IsAvailable(buffer, size))
    IN
    IF found # 0
    THEN LET taken == [self EXCEPT !.bufferPool[found].inUse = TRUE,
                                   !.bufferPool[found].timestamp = now]
         IN  [self |-> taken, value |-> taken.bufferPool[found]]
    ELSE
    LET cleaned == IF Len(self.bufferPool) >= self.config.maxPoolSize
                   THEN forceCleanup(self, now) ELSE self
    IN
    IF /\ Len(self.bufferPool) >= self.config.maxPoolSize
       /\ Len(cleaned.bufferPool) >= self.config.maxPoolSize
    THEN [self |-> [cleaned EXCEPT !.stats.framesDropped = @ + 1],
          value |-> [id |-> <<"temp", now>>, timestamp |-> now,
                     inUse |-> TRUE, size |-> size]]
    ELSE
    LET newBuffer == [id |-> <<"buffer", now, suffix>>, timestamp |-> now,
                      inUse |-> TRUE, size |-> size]
        pushed == [cleaned EXCEPT !.bufferPool = Append(@, newBuffer)]
    IN  [self |-> updateMemoryUsage(
                     [pushed EXCEPT
                        !.stats.bufferPoolSize = Len(pushed.bufferPool)]),
         value |-> newBuffer]

releaseBuffer(self, buffer, now) ==
    LET found == FindIndex(self.bufferPool, LAMBDA b : b.id = buffer.id)
    IN  IF found # 0
        THEN [self EXCEPT !.bufferPool[found].inUse = FALSE,
                          !.bufferPool[found].timestamp = now]
        ELSE self

----------------------------------------------------------------------------
(* Holders acquire and release buffers while time passes and the pool is   *)
(* cleaned.  A holder keeps the buffer it was handed until it releases it, *)
(* once; holders being alike, the first one without a buffer is the next   *)
(* to acquire.  Every new buffer gets a random suffix of its own.          *)

MaxAcquired == 4
MaxPoolTicks == 2

Holders == {1, 2, 3}
BufferSizes == {100, 200}
NothingHeld == [id |-> <<"none">>]

PoolAcquire ==
    \E h \in Holders, size \in BufferSizes :
        /\ pipe.holding[h] = NothingHeld
        /\ \A other \in Holders :
              other < h => pipe.holding[other] # NothingHeld
        /\ pipe.acquired < MaxAcquired
        /\ LET call == acquireBuffer(pipe.manager, size, pipe.now,
                                      pipe.acquired)
           IN  pipe' = [pipe EXCEPT
                          !.manager = call.self,
                          !.holding[h] = call.value,
                          !.acquired = @ + 1,
                          !.last = [op |-> "acquireBuffer",
                                    buffer |-> call.value]]
        /\ UNCHANGED <<pose, prep, gov>>

PoolRelease ==
    \E h \in Holders :
        /\ pipe.holding[h] # NothingHeld
        /\ pipe' = [pipe EXCEPT
                      !.manager = releaseBuffer(@, pipe.holding[h], pipe.now),
                      !.holding[h] = NothingHeld,
                      !.last = [op |-> "releaseBuffer",
                                buffer |-> pipe.holding[h]]]
        /\ UNCHANGED <<pose, prep, gov>>

(* forceCleanup, called by the interval timer or through the hook.         *)
PoolForceCleanup ==
    /\ pipe.last.op # "forceCleanup"
    /\ pipe' = [pipe EXCEPT
                  !.manager = forceCleanup(@, pipe.now),
                  !.last = [op |-> "forceCleanup", buffer |-> NothingHeld]]
    /\ UNCHANGED <<pose, prep, gov>>

PoolClockTick ==
    /\ pipe.ticks < MaxPoolTicks
    /\ pipe' = [pipe EXCEPT !.now = @ + 2500, !.ticks = @ + 1,
                            !.last = [op |-> "tick", buffer |-> NothingHeld]]
    /\ UNCHANGED <<pose, prep, gov>>

PoolInit ==
    /\ pipe \in { [version |-> "pool",
                   manager |-> NewFrameMemoryManager(BufferPoolConfig(n), 0),
                   now |-> 0, ticks |-> 0, acquired |-> 0,
                   holding |-> [h \in Holders |-> NothingHeld],
                   last |-> [op |-> "new", buffer |-> NothingHeld]] :
                   n \in {1, 2} }
    /\ pose = FreshPose(DefaultPoseConfig)
    /\ prep = FreshPrep
    /\ gov = FreshGov(DefaultGovConfig)

PoolNext == PoolAcquire \/ PoolRelease \/ PoolForceCleanup \/ PoolClockTick

PoolSpec == PoolInit /\ [][PoolNext]_vars

PoolIds(manager) ==
    { manager.bufferPool[i].id : i \in 1..Len(manager.bufferPool) }

InUseIds(manager) ==
    { manager.bufferPool[i].id :
        i \in { j \in 1..Len(manager.bufferPool) : manager.bufferPool[j].inUse } }

(* The pool is full, holds no buffer that could be handed out for the      *)
(* size, and none that a cleanup would remove.                             *)
FullAndNothingToFree(manager, size, now) ==
    /\ Len(manager.bufferPool) >= manager.config.maxPoolSize
    /\ \A i \in 1..Len(manager.bufferPool) :
          LET b == manager.bufferPool[i]
          IN  /\ b.inUse \/ b.size < size
              /\ b.inUse \/ now - b.timestamp < 5000

(* C26: the pool holds at most maxPoolSize buffers and                     *)
(* stats.bufferPoolSize is the pool's length; an acquireBuffer on a full   *)
(* pool from which cleanup frees nothing leaves the pool as it is, adds    *)
(* exactly 1 to framesDropped and returns a buffer that is not in the      *)
(* pool; forceCleanup never removes a buffer that is in use.               *)
C26_PoolBound ==
    [][ /\ Len(pipe'.manager.bufferPool) <= pipe'.manager.config.maxPoolSize
        /\ pipe'.manager.stats.bufferPoolSize = Len(pipe'.manager.bufferPool)
        /\ (/\ pipe'.last.op = "acquireBuffer"
            /\ FullAndNothingToFree(pipe.manager, pipe'.last.buffer.size,
                                     pipe.now))
           => /\ pipe'.manager.bufferPool = pipe.manager.bufferPool
              /\ pipe'.manager.stats.framesDropped =
                    pipe.manager.stats.framesDropped + 1
              /\ pipe'.last.buffer.id \notin PoolIds(pipe'.manager)
        /\ pipe'.last.op \in {"forceCleanup", "acquireBuffer"}
           => InUseIds(pipe.manager) \subseteq PoolIds(pipe'.manager)
      ]_vars

(* A frame was dropped on a full pool of two buffers, one in use and one   *)
(* free but too small and too young to be cleaned.                         *)
C26_Witness ==
    /\ pipe.version = "pool"
    /\ pipe.last.op = "acquireBuffer"
    /\ pipe.last.buffer.id[1] = "temp"
    /\ pipe.manager.stats.framesDropped = 1
    /\ Len(pipe.manager.bufferPool) = 2
    /\ pipe.manager.stats.bufferPoolSize = 2
    /\ \E i \in 1..2 : ~pipe.manager.bufferPool[i].inUse
    /\ \E i \in 1..2 : pipe.manager.bufferPool[i].inUse

Pooled(buffer) == buffer # NothingHeld /\ buffer.id[1] = "buffer"

(* C27: no pooled buffer is held by two holders at a time; acquireBuffer   *)
(* hands out a pooled buffer only if it was not in use, and the buffer is  *)
(* marked in use for as long as it is held; releasing a temporary buffer   *)
(* changes no pooled buffer.                                               *)
C27_ExclusiveOwnership ==
    [][ /\ \A h1 \in Holders, h2 \in Holders :
              (h1 # h2 /\ Pooled(pipe'.holding[h1]) /\ Pooled(pipe'.holding[h2]))
              => pipe'.holding[h1].id # pipe'.holding[h2].id
        /\ \A h \in Holders :
              Pooled(pipe'.holding[h])
              => pipe'.holding[h].id \in InUseIds(pipe'.manager)
        /\ (pipe'.last.op = "acquireBuffer" /\ Pooled(pipe'.last.buffer))
           => pipe'.last.buffer.id \notin InUseIds(pipe.manager)
        /\ (pipe'.last.op = "releaseBuffer" /\ ~Pooled(pipe'.last.buffer))
           => pipe'.manager = pipe.manager
      ]_vars

(* A buffer released by one holder was handed to another while a third     *)
(* holder released a temporary buffer.                                     *)
C27_Witness ==
    /\ pipe.version = "pool"
    /\ pipe.last.op = "releaseBuffer"
    /\ pipe.last.buffer.id[1] = "temp"
    /\ \E h \in Holders :
          /\ Pooled(pipe.holding[h])
          /\ pipe.holding[h].id[2] < pipe.holding[h].timestamp

----------------------------------------------------------------------------
(* ModelManager: loading, use and disposal of the TensorFlow Lite model.   *)

Null == [null |-> TRUE]

NewModelManager ==
    [model |-> Null, isLoading |-> FALSE, isInitialized |-> FALSE,
     config |-> Null, metrics |-> Null, inputBuffer |-> Null,
     outputBuffers |-> <<>>]

getOptimalDelegate(enableGPU, platformOS) ==
    IF ~enableGPU THEN "cpu"
    ELSE IF platformOS = "ios" THEN "core-ml"
    ELSE IF platformOS = "android" THEN "gpu"
    ELSE "cpu"

estimateModelSize(config) == config.inputSize * config.inputSize * 3 * 4

initializeBuffers(self, config) ==
    [self EXCEPT
       !.inputBuffer = config.inputSize * config.inputSize * 3 * 4,
       !.outputBuffers =
           <<config.outputShape[1] * config.outputShape[2]
               * config.outputShape[3] * config.outputShape[4] * 4>>]

(* initialize up to its first await: rejected while a load is pending,     *)
(* answered from the metrics when initialized, otherwise the load of the   *)
(* model with the optimal delegate is started.                             *)
initializeStart(self, config, platformOS) ==
    IF self.isLoading
    THEN [self |-> self, loading |-> FALSE,
          outcome |-> Throw("Model is already being loaded")]
    ELSE IF self.isInitialized
    THEN [self |-> self, loading |-> FALSE, outcome |-> Return(self.metrics)]
    ELSE [self |-> [self EXCEPT !.isLoading = TRUE, !.config = config],
          loading |-> TRUE,
          delegate |-> getOptimalDelegate(config.enableGPU, platformOS),
          outcome |-> Null]

(* initialize after loadModelWithDelegate has resolved with a model loaded *)
(* with the delegate loadedWith.                                           *)
initializeLoaded(self, config, delegate, loadedWith, loadTime) ==
    LET buffered == initializeBuffers(
                        [self EXCEPT !.model = [delegate |-> loadedWith]],
                        config)
        metrics == [loadTime |-> loadTime,
                    gpuEnabled |-> delegate # "cpu",
                    delegate |-> delegate,
                    modelSize |-> estimateModelSize(config)]
    IN  [self |-> [buffered EXCEPT !.metrics = metrics,
                                   !.isInitialized = TRUE,
                                   !.isLoading = FALSE],
         outcome |-> Return(metrics)]

(* initialize after loadModelWithDelegate has rejected.                    *)
initializeFailed(self) ==
    [self |-> [self EXCEPT !.isLoading = FALSE],
     outcome |-> Throw("Model initialization failed")]

isReady(self) == self.isInitialized /\ self.model # Null

dispose(self) ==
    [self EXCEPT !.model = Null, !.inputBuffer = Null, !.outputBuffers = <<>>,
                 !.isInitialized = FALSE, !.config = Null, !.metrics = Null]

(* runInference on a valid typed array; executor tells what runSync does.  *)
ManagerRunInference(self, executor) ==
    IF self.model = Null \/ ~self.isInitialized
    THEN Throw("Model not initialized")
    ELSE IF executor = "throws" THEN Throw("Inference failed")
    ELSE IF executor = "empty"
    THEN Throw("Inference failed: Model returned no outputs")
    ELSE Return(51)

----------------------------------------------------------------------------
(* The manager in use: initialize calls, each waiting for its load, with   *)
(* dispose and runInference calls in between.  A call remembers how many   *)
(* dispose calls had returned when it started.                             *)

MaxInitializations == 3
MaxDisposals == 2

ModelConfigs ==
    { [modelPath |-> "movenet", enableGPU |-> gpu, inputSize |-> 192,
       outputShape |-> <<1, 1, 17, 3>>] : gpu \in BOOLEAN }

ModelIdle(platformOS) ==
    [version |-> "model", manager |-> NewModelManager,
     platformOS |-> platformOS, now |-> 0, started |-> 0, disposals |-> 0,
     loads |-> {},
     last |-> [op |-> "new", outcome |-> Null, after |-> 0]]

CallInitialize ==
    \E config \in ModelConfigs :
        /\ pipe.started < MaxInitializations
        /\ LET start == initializeStart(pipe.manager, config, pipe.platformOS)
           IN  pipe' = [pipe EXCEPT
                          !.manager = start.self,
                          !.started = @ + 1,
                          !.loads = IF start.loading
                                    THEN @ \cup {[id |-> pipe.started + 1,
                                                  config |-> config,
                                                  delegate |-> start.delegate,
                                                  attempt |-> start.delegate,
                                                  startTime |-> pipe.now,
                                                  after |-> pipe.disposals]}
                                    ELSE @,
                          !.last = [op |-> "initialize",
                                    outcome |-> start.outcome,
                                    after |-> pipe.disposals]]
        /\ UNCHANGED <<pose, prep, gov>>

(* loadTensorflowModel resolves: the awaiting initialize runs to its end.  *)
ModelLoaded ==
    \E load \in pipe.loads :
        /\ LET done == initializeLoaded(pipe.manager, load.config,
                                         load.delegate, load.attempt,
                                         pipe.now + 100 - load.startTime)
           IN  pipe' = [pipe EXCEPT
                          !.manager = done.self,
                          !.now = @ + 100,
                          !.loads = @ \ {load},
                          !.last = [op |-> "initialized",
                                    outcome |-> done.outcome,
                                    after |-> load.after]]
        /\ UNCHANGED <<pose, prep, gov>>

(* loadTensorflowModel rejects: with a GPU delegate the CPU load is        *)
(* started, with the CPU delegate initialize fails.                        *)
ModelLoadFailed ==
    \E load \in pipe.loads :
        /\ IF load.attempt # "cpu"
           THEN pipe' = [pipe EXCEPT
                           !.now = @ + 100,
                           !.loads = (@ \ {load}) \cup
                                     {[load EXCEPT !.attempt = "cpu"]},
                           !.last = [op |-> "fallback", outcome |-> Null,
                                     after |-> load.after]]
           ELSE LET failed == initializeFailed(pipe.manager)
                IN  pipe' = [pipe EXCEPT
                               !.manager = failed.self,
                               !.now = @ + 100,
                               !.loads = @ \ {load},
                               !.last = [op |-> "initialized",
                                         outcome |-> failed.outcome,
                                         after |-> load.after]]
        /\ UNCHANGED <<pose, prep, gov>>

CallDispose ==
    /\ pipe.disposals < MaxDisposals
    /\ pipe' = [pipe EXCEPT
                  !.manager = dispose(@),
                  !.disposals = @ + 1,
                  !.last = [op |-> "dispose", outcome |-> Null,
                            after |-> pipe.disposals + 1]]
    /\ UNCHANGED <<pose, prep, gov>>

CallRunInference ==
    \E executor \in {"ok", "throws", "empty"} :
        /\ pipe.last.op # "runInference"
        /\ pipe' = [pipe EXCEPT
                      !.last = [op |-> "runInference",
                                outcome |-> ManagerRunInference(pipe.manager,
                                                                executor),
                                after |-> pipe.disposals]]
        /\ UNCHANGED <<pose, prep, gov>>

ModelInit ==
    /\ pipe \in { ModelIdle(os) : os \in {"ios", "android", "web"} }
    /\ pose = FreshPose(DefaultPoseConfig)
    /\ prep = FreshPrep
    /\ gov = FreshGov(DefaultGovConfig)

ModelNext ==
    \/ CallInitialize
    \/ ModelLoaded
    \/ ModelLoadFailed
    \/ CallDispose
    \/ CallRunInference

ModelSpec == ModelInit /\ [][ModelNext]_vars

(* C28: once dispose() has returned, isReady() is false and runInference   *)
(* throws 'Model not initialized' until an initialize() that started after *)
(* the dispose completes, also when dispose() is called while an earlier   *)
(* initialize() awaits the load; a second initialize() issued while one is *)
(* loading is rejected without starting another load.                      *)
C28_DisposedUntilReinitialized ==
    [][ /\ (pipe'.last.op = "dispose") => ~isReady(pipe'.manager)
        /\ (~isReady(pipe.manager) /\ isReady(pipe'.manager))
           => /\ pipe'.last.op = "initialized"
              /\ pipe'.last.after = pipe.disposals
        /\ (pipe'.last.op = "runInference" /\ ~isReady(pipe.manager))
           => pipe'.last.outcome = Throw("Model not initialized")
        /\ (pipe'.started = pipe.started + 1 /\ pipe.manager.isLoading)
           => /\ pipe'.last.outcome = Throw("Model is already being loaded")
              /\ pipe'.loads = pipe.loads
      ]_vars

(* Without the stale completion: what does hold of dispose, runInference   *)
(* and of a second initialize.                                             *)
DisposeAndRejection ==
    [][ /\ (pipe'.last.op = "dispose") => ~isReady(pipe'.manager)
        /\ (~isReady(pipe.manager) /\ isReady(pipe'.manager))
           => pipe'.last.op = "initialized"
        /\ (pipe'.last.op = "runInference" /\ ~isReady(pipe.manager))
           => pipe'.last.outcome = Throw("Model not initialized")
        /\ (pipe'.started = pipe.started + 1 /\ pipe.manager.isLoading)
           => /\ pipe'.last.outcome = Throw("Model is already being loaded")
              /\ pipe'.loads = pipe.loads
      ]_vars

(* C29: when the load with the GPU or CoreML delegate fails and the CPU    *)
(* load succeeds, initialize succeeds and the metrics name the delegate in *)
(* use (delegate = 'cpu', gpuEnabled = false); gpuEnabled is true only if  *)
(* the model was loaded with a non-CPU delegate.                           *)
C29_MetricsNameDelegateInUse ==
    (pipe.version = "model" /\ pipe.manager.metrics # Null
        /\ pipe.manager.model # Null)
    => /\ pipe.manager.metrics.delegate = pipe.manager.model.delegate
       /\ pipe.manager.metrics.gpuEnabled
            <=> pipe.manager.model.delegate # "cpu"

(* What does hold: the metrics name the delegate that was asked for, and   *)
(* initialize succeeds after a fallback.                                   *)
MetricsNameDelegateRequested ==
    (pipe.version = "model" /\ pipe.manager.metrics # Null)
    => /\ pipe.manager.metrics.delegate \in
            { getOptimalDelegate(gpu, pipe.platformOS) : gpu \in BOOLEAN }
       /\ pipe.manager.metrics.gpuEnabled
            <=> pipe.manager.metrics.delegate # "cpu"

----------------------------------------------------------------------------
(* The two software preprocessing functions on the same planar YUV frame,  *)
(* byte by byte, with uint8 output and no normalization.                   *)

(* resizeRGBDataOptimized, byte by byte: as resizeRGBDataReads, with the   *)
(* fixed-point source coordinates.                                         *)
resizeRGBDataOptimizedReads(srcWidth, srcHeight, dstWidth, dstHeight) ==
    [i \in 1..(dstWidth * dstHeight * 3) |->
        LET dstY == ((i - 1) \div 3) \div dstWidth
            dstX == ((i - 1) \div 3) % dstWidth
            srcY == clampedSrcOptimized(dstY, srcHeight, dstHeight)
            srcX == clampedSrcOptimized(dstX, srcWidth, dstWidth)
        IN  srcY * srcWidth * 3 + srcX * 3 + ((i - 1) % 3)]

(* resizedData[i] = rgbData[reads[i]]; a read outside rgbData stores 0.    *)
CopyBytes(rgbData, reads) ==
    [i \in DOMAIN reads |->
        IF reads[i] >= 0 /\ reads[i] < Len(rgbData)
        THEN rgbData[reads[i] + 1] ELSE 0]

(* The data of processWithFallback for a 'yuv' frame.                      *)
processWithFallbackBytes(yuvData, width, height, config, up) ==
    LET dims == calculateDimensions(width, height, config)
        rgb == convertYUVtoRGBBytes(yuvData, width, height, up)
    IN  IF rgb.threw THEN rgb
        ELSE IF dims.targetWidth # width \/ dims.targetHeight # height
        THEN Return(CopyBytes(rgb.value,
                              resizeRGBDataReads(width, height,
                                  dims.targetWidth, dims.targetHeight)))
        ELSE rgb

(* The data of preprocessFrameOptimized for a 'yuv' frame.                 *)
preprocessFrameOptimizedBytes(yuvData, width, height, config, up) ==
    LET dims == calculateDimensionsOptimized(width, height, config)
        rgb == convertYUVtoRGBOptimizedBytes(yuvData, width, height, up)
    IN  IF rgb.threw THEN rgb
        ELSE IF dims.targetWidth # width \/ dims.targetHeight # height
        THEN Return(CopyBytes(rgb.value,
                              resizeRGBDataOptimizedReads(width, height,
                                  dims.targetWidth, dims.targetHeight)))
        ELSE rgb

(* Frames whose luma grows from pixel to pixel and whose chroma is flat.   *)
GradientBuffer(base, step, U, V, width, height) ==
    [i \in 1..(width * height) |-> (base + step * (i - 1)) % 256]
        \o Repeat(U, (width * height) \div 4)
        \o Repeat(V, (width * height) \div 4)

RefinementFrames ==
    { [width |-> d[1], height |-> d[2], U |-> u, V |-> v,
       yuvData |-> GradientBuffer(b, st, u, v, d[1], d[2])] :
        d \in {<<2, 2>>, <<4, 4>>, <<10, 10>>},
        b \in {16, 60}, st \in {0, 1},
        u \in {0, 90, 128}, v \in {0, 128, 200} }

RefinementConfigs ==
    { [inputSize |-> n, maintainAspectRatio |-> FALSE,
       outputFormat |-> "uint8", normalizeValues |-> FALSE] : n \in {2, 4, 6} }

CallPreprocessFrameBytes ==
    /\ pipe.standard = NotCalled
    /\ pipe' = [pipe EXCEPT
                  !.standard = processWithFallbackBytes(
                                   pipe.frame.yuvData, pipe.frame.width,
                                   pipe.frame.height, pipe.config, pipe.up)]
    /\ UNCHANGED <<pose, prep, gov>>

CallPreprocessFrameOptimizedBytes ==
    /\ pipe.optimized = NotCalled
    /\ pipe' = [pipe EXCEPT
                  !.optimized = preprocessFrameOptimizedBytes(
                                    pipe.frame.yuvData, pipe.frame.width,
                                    pipe.frame.height, pipe.config, pipe.up)]
    /\ UNCHANGED <<pose, prep, gov>>

(* up tells how a component that ends in .5 is rounded; it is the same for *)
(* both functions.                                                         *)
RefinementInit ==
    /\ pipe \in { [version |-> "refinement", frame |-> f, config |-> c,
                    up |-> up, standard |-> NotCalled,
                    optimized |-> NotCalled] :
                    f \in RefinementFrames, c \in RefinementConfigs,
                    up \in BOOLEAN }
    /\ pose = FreshPose(DefaultPoseConfig)
    /\ prep = FreshPrep
    /\ gov = FreshGov(DefaultGovConfig)

RefinementNext == CallPreprocessFrameBytes \/ CallPreprocessFrameOptimizedBytes

RefinementSpec == RefinementInit /\ [][RefinementNext]_vars

BothPreprocessed ==
    /\ pipe.version = "refinement"
    /\ pipe.standard # NotCalled
    /\ pipe.optimized # NotCalled

(* C30: for every supported frame and config, preprocessFrameOptimized     *)
(* returns a data buffer byte-identical to that of preprocessFrame: same   *)
(* source pixel for every destination pixel, same RGB value for every      *)
(* Y, U, V in 0..255, chroma samples equal to 0 included.                  *)
C30_OptimizedRefinesStandard ==
    BothPreprocessed => pipe.optimized = pipe.standard

(* What does hold: the same length, and the same bytes when no chroma      *)
(* sample is 0 and the frame is not resized.                               *)
SameLengthAndSameBytesUnresized ==
    BothPreprocessed =>
        /\ ~pipe.standard.threw /\ ~pipe.optimized.threw
        /\ Len(pipe.optimized.value) = Len(pipe.standard.value)
        /\ (/\ pipe.frame.U # 0 /\ pipe.frame.V # 0
            /\ pipe.frame.width = pipe.config.inputSize
            /\ pipe.frame.height = pipe.config.inputSize)
           => pipe.optimized.value = pipe.standard.value

====
